---- MODULE Spec2Model ----
(***************************************************************************)
(* Model of the kfactory transformation / port / routing / netlist kernel. *)
(*                                                                         *)
(* Part I  : routing.aa.optical.route() as a state machine, one action per *)
(*           loop iteration (SpecRoute).                                   *)
(* Part II : the Port / DPort objects of port.py, one action per           *)
(*           constructor, setter, copy and comparison (SpecPort).          *)
(* Part III: netlist extraction and checking in kcell.py: circuit() of one *)
(*           cell (SpecCircuit), l2n() over a cell hierarchy (SpecL2n) and *)
(*           connectivity_check() of one cell (SpecCheck), with its port   *)
(*           type and layer filters and shape overlaps (SpecFilter).       *)
(* Part IV : route_bundle(), the waypoints of each lane (SpecBundle).      *)
(* Part V  : lock() and the mutating methods of KCell, DKCell and VKCell   *)
(*           (SpecLock).                                                   *)
(* Part VI : rename_clockwise() on the ports of a cell (SpecRename).       *)
(*                                                                         *)
(* Geometry is exact integer geometry.  Backbones are rectilinear, so      *)
(* that every length is an integer and every turn is a multiple of 90      *)
(* degrees; a waypoint may be given twice.  Micrometre values are counted  *)
(* in units of 1/Sub of a database unit, so that "off grid" is "not a      *)
(* multiple of Sub".                                                       *)
(***************************************************************************)
EXTENDS Integers, Sequences, FiniteSets, TLC

\* ------------------------------------------------------------------------
\* Bounds of the model
\* ------------------------------------------------------------------------
\* longest backbone handed to route()
MaxBackboneLen == 4

\* coordinates of the waypoints (um)
XCoords == {0, 3, 10, 20}

YCoords == {0, 10}

\* radius of the circular bend the bend factory generates (um)
BendRadius == 5

Abs(n) == IF n < 0 THEN -n ELSE n

\* ------------------------------------------------------------------------
\* Part I - route()
\* ------------------------------------------------------------------------
VARIABLES
    backbone,          \* the waypoints handed to route()
    pc,                \* "call" | "loop" | "close" | "done" | "failed"
    idx,               \* backbone[idx] is `pt`, backbone[idx-1] is `old_pt`
    start_offset,      \* effective radius of the bend at old_pt
    effective_radius,  \* effective radius of the bend at pt
    bends,             \* the dict of generated bends, keyed by turn angle
    factory_calls,     \* the angles bend_factory was invoked with, in order
    insts,             \* the list `insts` returned in the route
    c_insts,           \* the instances of the target cell c
    c_before,          \* the instances of c when route() was called
    cursor,            \* `_port`, the port the next element is connected to
    err,               \* the exception route() raised
    ports,             \* the port objects p and q (Part II)
    last,              \* the port operation executed last (Part II)
    nops,              \* the number of operations made on p and on q
    cells,             \* the cells: boundary ports and instances (Part III)
    calls,             \* the pairs <<parent, child>> of instantiation
    port_types,        \* the `port_types` argument
    todo,              \* l2n(): the called cells not yet extracted, in order
    netlist,           \* the circuits added to the netlist, in order
    npc,               \* "idle" | "call" | "loop" | "top" | "done" | "raised"
    nerr,              \* the exception raised by circuit() or l2n()
    db,                \* the items of the report database
    layers,            \* the `layers` argument of connectivity_check
    bundle,            \* route_bundle(): the lane reconciled last (Part IV)
    kc,                \* the cell that is locked and then operated on
    ren                \* rename_clockwise(): the ports and the call made

routeVars == <<backbone, pc, idx, start_offset, effective_radius, bends,
               factory_calls, insts, c_insts, c_before, cursor, err>>

portVars == <<ports, last, nops>>

netVars == <<cells, calls, port_types, todo, netlist, npc, nerr, db>>

auxVars == <<layers, bundle, kc, ren>>

vars == <<routeVars, portVars, netVars, auxVars>>

\* a reference to a transformation object: id 0 is Python's None, two
\* references with the same id are the same object
NoneRef == [id |-> 0, v |-> <<>>]

\* a port variable that holds no port yet
NoPort == [alive |-> FALSE, flavour |-> "Port", meta |-> <<>>,
           trans |-> NoneRef, dcplx |-> NoneRef]

\* the outcome of an operation: the value returned, or the exception raised
Ok(v) == [exc |-> "", v |-> v]

Raised(e) == [exc |-> e, v |-> <<>>]

NoOp == [op |-> "none", k |-> "p", arg |-> <<>>, res |-> Ok(<<>>)]

PortNames == {"p", "q"}

\* Part I does not touch the ports
PortsIdle ==
    /\ ports = [k \in PortNames |-> NoPort]
    /\ last = NoOp
    /\ nops = [k \in PortNames |-> 0]

\* no cell is extracted or checked
NetIdle ==
    /\ cells = <<>>
    /\ calls = {}
    /\ port_types = {}
    /\ todo = <<>>
    /\ netlist = <<>>
    /\ npc = "idle"
    /\ nerr = [kind |-> "none", what |-> "none"]
    /\ db = <<>>

\* no lane of a bundle is reconciled
BundleIdle == bundle = [n |-> 0]

\* no cell is locked, no ports are renamed
LockIdle == kc = <<>>

RenameIdle == ren = <<>>

\* no allow-list of layers is given, and nothing else is going on
AuxIdle ==
    /\ layers = {}
    /\ BundleIdle
    /\ LockIdle
    /\ RenameIdle

Point(x, y) == [x |-> x, y |-> y]

Points == {Point(x, y) : x \in XCoords, y \in YCoords}

\* kdb.DPoint - kdb.DPoint
VSub(p, q) == [x |-> p.x - q.x, y |-> p.y - q.y]

\* kdb.DVector.length() of a vector along one of the axes
VLength(v) == IF v.x = 0 THEN Abs(v.y) ELSE Abs(v.x)

\* a segment the model can measure exactly
AxisAligned(p, q) == (p.x = q.x) # (p.y = q.y)

\* the backbones of the model: 2 .. MaxBackboneLen waypoints, every segment
\* along one of the axes or of length 0 (a waypoint given twice)
RECURSIVE BackbonesOfLen(_)
BackbonesOfLen(n) ==
    IF n = 1 THEN {<<p>> : p \in Points}
    ELSE UNION {{Append(b, p) : p \in {q \in Points : AxisAligned(b[n - 1], q) \/ q = b[n - 1]}} :
                  b \in BackbonesOfLen(n - 1)}

Backbones == UNION {BackbonesOfLen(n) : n \in 2 .. MaxBackboneLen}

\* _angle(v): degrees of arctan2(v.y, v.x), in (-180, 180]
Angle(v) ==
    IF v.y = 0 THEN (IF v.x >= 0 THEN 0 ELSE 180)
    ELSE IF v.y > 0 THEN 90 ELSE -90

\* _a = (e_a - s_a + 180) % 360 - 180
TurnAngle(old_pt, pt, new_pt) ==
    ((Angle(VSub(new_pt, pt)) - Angle(VSub(pt, old_pt)) + 180) % 360) - 180

\* the turn angle at interior waypoint i of backbone b
TurnAt(b, i) == TurnAngle(b[i - 1], b[i], b[i + 1])

\* length of the segment that ends at waypoint i
SegLen(b, i) == VLength(VSub(b[i], b[i - 1]))

\* the element bend_factory(width, angle) returns: a circular arc of
\* radius BendRadius that starts at the origin heading east; its port o1
\* looks back (180 degrees), its port o2 looks along the end tangent
BendFactory(angle) ==
    [kind  |-> "bend",
     angle |-> angle,
     ports |-> [o1 |-> [x |-> 0, y |-> 0, a |-> 180],
                o2 |-> IF angle = 90
                       THEN [x |-> BendRadius, y |-> BendRadius, a |-> 90]
                       ELSE [x |-> 0, y |-> 2 * BendRadius, a |-> 180]]]

\* the element straight_factory(width, length) returns
StraightFactory(length) == [kind |-> "straight", length |-> length]

\* kdb.DEdge.cut_point of the lines through two ports along their
\* directions; `ok` is FALSE where cut_point returns None (parallel lines)
CutPoint(p1, p2) ==
    LET h1 == (p1.a % 180) = 0
        h2 == (p2.a % 180) = 0
    IN  IF h1 = h2 THEN [ok |-> FALSE, x |-> 0, y |-> 0]
        ELSE IF h1 THEN [ok |-> TRUE, x |-> p2.x, y |-> p1.y]
        ELSE [ok |-> TRUE, x |-> p1.x, y |-> p2.y]

\* effective radius of a bend: distance of port bend_ports[0] from the cut
\* point of the two port rays (only evaluated where the cut point exists)
EffectiveRadius(bend) ==
    LET cp == CutPoint(bend.ports.o1, bend.ports.o2)
    IN  VLength(VSub(cp, Point(bend.ports.o1.x, bend.ports.o1.y)))

\* `cp - p1.dcplx_trans.disp.to_p()` raises TypeError when cp is None
HasCutPoint(bend) == CutPoint(bend.ports.o1, bend.ports.o2).ok

\* the start port built from the first backbone segment; the cursor names
\* a port as (index of the instance in c, port name), index 0 = start_port
StartPort == [inst |-> 0, port |-> "o1"]

NoError == [kind |-> "none", what |-> "none", pts |-> <<>>]

\* `if len(backbone) < 3: raise ValueError(...)`
TooFewPointsMut(b) == Len(b) < 2

TooFewPoints(b) == Len(b) < 3

\* the key under which a bend for turn angle a is cached in `bends`
BendKey(a) == a

\* effective radius at a waypoint with turn angle a and bend `bend`
StepRadiusMut(a, bend) == EffectiveRadius(BendFactory(90))

StepRadius(a, bend) == IF a # 0 THEN EffectiveRadius(bend) ELSE 0

\* _l = (pt - old_pt).length() - effective_radius - start_offset
StraightLenMut(d, r, offset) == d - r

StraightLen(d, r, offset) == d - r - offset

\* the check that raises "Not enough space to place bends at points ..."
\* it is made inside `if _a != 0:` only
NotEnoughSpace(a, d, r, offset) == a # 0 /\ d - r - offset < 0

\* the port of a bend that is connected to the cursor, of bend_ports =
\* ("o1", "o2"), and the port the cursor advances to
AttachPortMut(a) == "o1"

AttachPort(a) == IF a < 0 THEN "o2" ELSE "o1"

ExitPort(a) == IF a < 0 THEN "o1" ELSE "o2"

\* the instances of the cell after route() raised: `raise` is not enclosed
\* in any try, nothing placed since the call is taken back
AfterRaiseMut(now, at_call) == at_call

AfterRaise(now, at_call) == now

\* the instance `c << cell` creates, connected by its port `port` to `to`
Placed(cell, id, port, to) ==
    IF cell.kind = "straight"
    THEN [id |-> id, kind |-> "straight", size |-> cell.length,
          port |-> port, to |-> to]
    ELSE [id |-> id, kind |-> "bend", size |-> cell.angle,
          port |-> port, to |-> to]

\* the instances a cell may hold before route() is called on it
PreInsts == {<<>>, <<Placed(StraightFactory(1), 1, "o1", StartPort)>>}

InitRoute ==
    /\ backbone \in Backbones
    /\ pc = "call"
    /\ idx = 0
    /\ start_offset = 0
    /\ effective_radius = 0
    /\ bends = <<>>
    /\ factory_calls = <<>>
    /\ insts = <<>>
    /\ c_insts \in PreInsts
    /\ c_before = c_insts
    /\ cursor = StartPort
    /\ err = NoError
    /\ AuxIdle
    /\ PortsIdle
    /\ NetIdle

\* route(), lines 43-72: the length check and the initialisation
RouteCall ==
    /\ pc = "call"
    /\ IF TooFewPoints(backbone)
       THEN /\ pc' = "failed"
            /\ err' = [kind |-> "ValueError", what |-> "less_than_3_points",
                       pts |-> <<>>]
            /\ UNCHANGED <<idx, start_offset, cursor, insts>>
       ELSE /\ pc' = IF Len(backbone) > 2 THEN "loop" ELSE "close"
            /\ idx' = 2
            /\ start_offset' = 0
            /\ cursor' = StartPort
            /\ insts' = <<>>
            /\ err' = NoError
    /\ bends' = <<>>
    /\ UNCHANGED <<backbone, effective_radius, factory_calls, c_insts, c_before>>
    /\ UNCHANGED <<portVars, netVars, auxVars>>

\* one iteration of `for new_pt in backbone[2:]`, lines 74-138
RouteStep ==
    /\ pc = "loop"
    /\ LET old_pt == backbone[idx - 1]
           pt     == backbone[idx]
           new_pt == backbone[idx + 1]
           a      == TurnAngle(old_pt, pt, new_pt)
           fresh  == a # 0 /\ BendKey(a) \notin DOMAIN bends
           bends1 == IF fresh THEN (BendKey(a) :> BendFactory(Abs(a))) @@ bends
                     ELSE bends
           bend   == bends1[BendKey(a)]
           d      == VLength(VSub(pt, old_pt))
       IN  /\ bends' = bends1
           /\ factory_calls' = IF fresh THEN Append(factory_calls, Abs(a))
                               ELSE factory_calls
           /\ IF a # 0 /\ ~HasCutPoint(bend)
              THEN /\ pc' = "failed"
                   /\ err' = [kind |-> "TypeError", what |-> "no_cut_point",
                              pts |-> <<>>]
                   /\ UNCHANGED <<idx, start_offset, effective_radius, insts,
                                  c_insts, cursor>>
              ELSE LET r == StepRadius(a, bend)
                       l == StraightLen(d, r, start_offset)
                       n == Len(c_insts)
                       s == Placed(StraightFactory(l), n + 1, "o1", cursor)
                       cur1 == IF l > 0 THEN [inst |-> n + 1, port |-> "o2"]
                               ELSE cursor
                       n1 == IF l > 0 THEN n + 1 ELSE n
                       b == Placed(bend, n1 + 1, AttachPort(a), cur1)
                       new == (IF l > 0 THEN <<s>> ELSE <<>>)
                              \o (IF a # 0 THEN <<b>> ELSE <<>>)
                   IN  IF NotEnoughSpace(a, d, r, start_offset)
                       THEN /\ pc' = "failed"
                            /\ err' = [kind |-> "ValueError",
                                       what |-> "not_enough_space",
                                       pts |-> <<old_pt, pt>>]
                            /\ effective_radius' = r
                            /\ c_insts' = AfterRaise(c_insts, c_before)
                            /\ UNCHANGED <<idx, start_offset, insts, cursor>>
                       ELSE /\ c_insts' = c_insts \o new
                            /\ insts' = insts \o new
                            /\ cursor' = IF a = 0 THEN cur1
                                         ELSE [inst |-> n1 + 1,
                                               port |-> ExitPort(a)]
                            /\ effective_radius' = r
                            /\ start_offset' = r
                            /\ idx' = idx + 1
                            /\ pc' = IF idx + 1 < Len(backbone) THEN "loop"
                                     ELSE "close"
                            /\ err' = NoError
    /\ UNCHANGED <<backbone, c_before>>
    /\ UNCHANGED <<portVars, netVars, auxVars>>

\* the closing straight, lines 139-158
RouteClose ==
    /\ pc = "close"
    /\ LET old_pt == backbone[idx - 1]
           pt     == backbone[idx]
           l      == VLength(VSub(pt, old_pt)) - effective_radius
           n      == Len(c_insts)
           s      == Placed(StraightFactory(l), n + 1, "o1", cursor)
       IN  IF l < 0
           THEN /\ pc' = "failed"
                /\ err' = [kind |-> "ValueError", what |-> "not_enough_space",
                           pts |-> <<old_pt, pt>>]
                /\ c_insts' = AfterRaise(c_insts, c_before)
                /\ UNCHANGED <<insts, cursor>>
           ELSE /\ pc' = "done"
                /\ err' = NoError
                /\ c_insts' = IF l > 0 THEN Append(c_insts, s) ELSE c_insts
                /\ insts' = IF l > 0 THEN Append(insts, s) ELSE insts
                /\ cursor' = IF l > 0 THEN [inst |-> n + 1, port |-> "o2"]
                             ELSE cursor
    /\ UNCHANGED <<backbone, idx, start_offset, effective_radius, bends,
                   factory_calls, c_before>>
    /\ UNCHANGED <<portVars, netVars, auxVars>>

NextRoute == RouteCall \/ RouteStep \/ RouteClose

SpecRoute == InitRoute /\ [][NextRoute]_vars

\* ------------------------------------------------------------------------
\* Part II - transformations (klayout.db Trans and DCplxTrans)
\* ------------------------------------------------------------------------
\* number of micrometre units of the model in one database unit: a um
\* coordinate is on the grid iff it is a multiple of Sub
Sub == 2

\* kdb.Trans(rot, mirror, x, y): mirror at the x axis, rotate by rot * 90
\* degrees, displace by (x, y) database units
STrans(rot, mirror, x, y) == [rot |-> rot, mirror |-> mirror, x |-> x, y |-> y]

\* kdb.DCplxTrans(mag, angle, mirror, x, y): angle in degrees, (x, y) in um
CTrans(mag, angle, mirror, x, y) ==
    [mag |-> mag, angle |-> angle, mirror |-> mirror, x |-> x, y |-> y]

\* rotation of a vector by k * 90 degrees
Rot90(k, v) ==
    CASE k % 4 = 0 -> [x |-> v.x, y |-> v.y]
      [] k % 4 = 1 -> [x |-> -v.y, y |-> v.x]
      [] k % 4 = 2 -> [x |-> -v.x, y |-> -v.y]
      [] k % 4 = 3 -> [x |-> v.y, y |-> -v.x]

\* the mirror at the x axis, applied iff m
MirrorX(m, v) == IF m THEN [x |-> v.x, y |-> -v.y] ELSE [x |-> v.x, y |-> v.y]

\* kdb.Trans.__mul__: a * b applies b first, then a
SMul(a, b) ==
    LET d == Rot90(a.rot, MirrorX(a.mirror, b))
    IN  STrans((a.rot + (IF a.mirror THEN -b.rot ELSE b.rot)) % 4,
               a.mirror # b.mirror, a.x + d.x, a.y + d.y)

\* a * b of two DCplxTrans is exact in the model when a rotates by a
\* multiple of 90 degrees or b does not displace
Composable(a, b) == a.angle % 90 = 0 \/ (b.x = 0 /\ b.y = 0)

\* kdb.DCplxTrans.__mul__: a * b applies b first, then a
CMul(a, b) ==
    LET d == IF a.angle % 90 = 0
             THEN Rot90(a.angle \div 90, MirrorX(a.mirror, b))
             ELSE [x |-> 0, y |-> 0]
    IN  CTrans(a.mag * b.mag,
               (a.angle + (IF a.mirror THEN -b.angle ELSE b.angle)) % 360,
               a.mirror # b.mirror, a.x + a.mag * d.x, a.y + a.mag * d.y)

\* rounding of a um coordinate to database units, half away from zero
RoundDiv(v) ==
    IF v >= 0 THEN (2 * v + Sub) \div (2 * Sub)
    ELSE -((2 * (-v) + Sub) \div (2 * Sub))

\* kdb.DCplxTrans(trans.to_dtype(dbu))
S2C(t) == CTrans(1, t.rot * 90, t.mirror, t.x * Sub, t.y * Sub)

\* kdb.ICplxTrans(dcplx_trans, dbu).s_trans(): the magnification is
\* dropped, the angle rounded down to a multiple of 90 degrees, the
\* displacement rounded to the grid
C2SMut(c) ==
    STrans(((c.angle + 45) \div 90) % 4, c.mirror, RoundDiv(c.x), RoundDiv(c.y))

C2S(c) == STrans(c.angle \div 90, c.mirror, RoundDiv(c.x), RoundDiv(c.y))

\* kdb.DCplxTrans.is_complex()
IsComplex(c) == c.mag # 1 \/ c.angle % 90 # 0

\* value.disp == kcl.to_um(kcl.to_dbu(value.disp))
OnGrid(c) == c.x = RoundDiv(c.x) * Sub /\ c.y = RoundDiv(c.y) * Sub

\* ------------------------------------------------------------------------
\* Part II - BasePort, Port and DPort
\* ------------------------------------------------------------------------
\* the ids of the transformation objects the ports refer to
UsedIds(ps) == {ps[k].trans.id : k \in PortNames} \cup
               {ps[k].dcplx.id : k \in PortNames}

\* the id of a new object
Fresh(ps) == CHOOSE n \in 1 .. 5 :
                n \notin UsedIds(ps) /\ \A m \in 1 .. n - 1 : m \in UsedIds(ps)

\* `port._base.trans = <new object with value val>`
PutTrans(ps, k, val) ==
    [ps EXCEPT ![k].trans = [id |-> Fresh(ps), v |-> val]]

\* `port._base.dcplx_trans = <new object with value val>`
PutDcplx(ps, k, val) ==
    [ps EXCEPT ![k].dcplx = [id |-> Fresh(ps), v |-> val]]

\* an attribute assignment on the object id: every reference to it sees it
Poke(ps, id, val) ==
    [k \in PortNames |->
        [ps[k] EXCEPT !.trans = IF @.id = id THEN [@ EXCEPT !.v = val] ELSE @,
                      !.dcplx = IF @.id = id THEN [@ EXCEPT !.v = val] ELSE @]]

\* BasePort.get_trans / ProtoPort.trans: the stored Trans, else the
\* conversion of the stored DCplxTrans
GetTrans(b) == IF b.trans.id # 0 THEN b.trans.v ELSE C2S(b.dcplx.v)

\* BasePort.get_dcplx_trans / ProtoPort.dcplx_trans: the stored DCplxTrans,
\* else the conversion of the Trans
GetDcplx(b) == IF b.dcplx.id # 0 THEN b.dcplx.v ELSE S2C(GetTrans(b))

\* ProtoPort.trans setter
SetTrans(ps, k, value) == PutTrans(ps, k, value)

\* ProtoPort.dcplx_trans setter
SetDcplxTrans(ps, k, value) ==
    IF IsComplex(value) \/ ~OnGrid(value)
    THEN PutDcplx(ps, k, value)
    ELSE PutTrans(ps, k, C2S(value))

\* Port.x setter (value in database units)
PortSetX(ps, k, value) ==
    IF ps[k].trans.id # 0
    THEN Poke(ps, ps[k].trans.id, [ps[k].trans.v EXCEPT !.x = value])
    ELSE LET vec == GetTrans(ps[k])
         IN  Poke(ps, ps[k].dcplx.id,
                  [ps[k].dcplx.v EXCEPT !.x = value * Sub, !.y = vec.y * Sub])

\* Port.y setter (value in database units)
PortSetY(ps, k, value) ==
    IF ps[k].trans.id # 0
    THEN Poke(ps, ps[k].trans.id, [ps[k].trans.v EXCEPT !.y = value])
    ELSE LET vec == GetTrans(ps[k])
         IN  Poke(ps, ps[k].dcplx.id,
                  [ps[k].dcplx.v EXCEPT !.x = vec.x * Sub, !.y = value * Sub])

\* DPort.center / ProtoPort.dcenter setter (pos in um)
SetDcenter(ps, k, pos) ==
    IF ps[k].trans.id # 0
    THEN Poke(ps, ps[k].trans.id,
              [ps[k].trans.v EXCEPT !.x = RoundDiv(pos.x), !.y = RoundDiv(pos.y)])
    ELSE Poke(ps, ps[k].dcplx.id,
              [ps[k].dcplx.v EXCEPT !.x = pos.x, !.y = pos.y])

\* DPort.x / ProtoPort.dx setter (value in um)
SetDx(ps, k, value) ==
    SetDcenter(ps, k, [x |-> value, y |-> GetDcplx(ps[k]).y])

\* DPort.y / ProtoPort.dy setter (value in um)
SetDy(ps, k, value) ==
    SetDcenter(ps, k, [x |-> GetDcplx(ps[k]).x, y |-> value])

\* ProtoPort.center setter, used by Port: self.x = value[0]; self.y = value[1]
PortSetCenter(ps, k, pos) == PortSetY(PortSetX(ps, k, pos.x), k, pos.y)

\* Port.angle setter (value in quadrants)
PortSetAngle(ps, k, value) ==
    PutTrans([ps EXCEPT ![k].dcplx = NoneRef, ![k].trans = NoneRef], k,
             [GetTrans(ps[k]) EXCEPT !.rot = value])

\* the angles that keep a transformation simple
RightAngles == {0, 90, 180, 270}

\* ProtoPort.orientation / Port.orientation setter (value in degrees)
SetOrientation(ps, k, value) ==
    IF ~IsComplex(GetDcplx(ps[k])) /\ value \in RightAngles
    THEN IF ps[k].trans.id # 0
         THEN Poke(ps, ps[k].trans.id,
                   [ps[k].trans.v EXCEPT !.rot = value \div 90])
         ELSE ps
    ELSE IF ps[k].dcplx.id # 0
         THEN Poke(ps, ps[k].dcplx.id, [ps[k].dcplx.v EXCEPT !.angle = value])
         ELSE PutDcplx(ps, k, [GetDcplx(ps[k]) EXCEPT !.angle = value])

\* ProtoPort.dangle / DPort.angle setter (value in degrees)
SetDangle(ps, k, value) ==
    IF value \in RightAngles /\ ps[k].trans.id # 0
    THEN Poke(ps, ps[k].trans.id, [ps[k].trans.v EXCEPT !.rot = value \div 90])
    ELSE LET trans == [GetDcplx(ps[k]) EXCEPT !.angle = value]
             ps1   == IF ps[k].dcplx.id # 0
                      THEN Poke(ps, ps[k].dcplx.id, trans) ELSE ps
         IN  SetDcplxTrans(ps1, k, trans)

\* ProtoPort.mirror / Port.mirror setter
SetMirror(ps, k, value) ==
    IF ps[k].trans.id # 0
    THEN Poke(ps, ps[k].trans.id, [ps[k].trans.v EXCEPT !.mirror = value])
    ELSE Poke(ps, ps[k].dcplx.id, [ps[k].dcplx.v EXCEPT !.mirror = value])

\* trans * base.trans * post_trans of three Trans
SProductMut(t1, t, t2) == SMul(SMul(t2, t), t1)

SProduct(t1, t, t2) == SMul(SMul(t1, t), t2)

\* trans * dcplx_trans * post_trans of three DCplxTrans
CProduct(t1, t, t2) == CMul(CMul(t1, t), t2)

\* an argument of copy(): a kdb.Trans (kind "S") or a kdb.DCplxTrans ("C")
AsComplex(a) == IF a.kind = "S" THEN S2C(a.t) ELSE a.t

\* BasePort.__copy__ of ps[src], stored in the variable dst: both
\* transformations are duplicated, the other fields are taken over
BaseCopy(ps, src, dst) ==
    LET ps0 == [ps EXCEPT ![dst] = [ps[src] EXCEPT !.trans = NoneRef,
                                                   !.dcplx = NoneRef]]
        ps1 == IF ps[src].trans.id # 0
               THEN PutTrans(ps0, dst, ps[src].trans.v) ELSE ps0
    IN  IF ps[src].dcplx.id # 0
        THEN PutDcplx(ps1, dst, ps[src].dcplx.v) ELSE ps1

\* BasePort.transformed(trans, post_trans) of ps[src], stored in dst
Transformed(ps, src, dst, t1, t2) ==
    LET base == BaseCopy(ps, src, dst)
    IN  IF base[dst].trans.id # 0 /\ t1.kind = "S" /\ t2.kind = "S"
        THEN PutTrans([base EXCEPT ![dst].trans = NoneRef], dst,
                      SProduct(t1.t, base[dst].trans.v, t2.t))
        ELSE PutDcplx([base EXCEPT ![dst].trans = NoneRef,
                                   ![dst].dcplx = NoneRef], dst,
                      CProduct(AsComplex(t1), GetDcplx(ps[src]), AsComplex(t2)))

\* the products of transformed() are exact in the model
CopyExact(b, t1, t2) ==
    (b.trans.id # 0 /\ t1.kind = "S" /\ t2.kind = "S")
    \/ (/\ Composable(AsComplex(t1), GetDcplx(b))
        /\ Composable(CMul(AsComplex(t1), GetDcplx(b)), AsComplex(t2)))

\* BasePort.__eq__ (pydantic): all fields are compared by value
BaseEq(a, b) ==
    /\ a.meta = b.meta
    /\ (a.trans.id = 0) = (b.trans.id = 0)
    /\ (a.trans.id # 0 => a.trans.v = b.trans.v)
    /\ (a.dcplx.id = 0) = (b.dcplx.id = 0)
    /\ (a.dcplx.id # 0 => a.dcplx.v = b.dcplx.v)

\* ProtoPort.__eq__(self, other): `isinstance(other, Port)`
PortEq(self, other) ==
    IF other.flavour = "Port" THEN BaseEq(self, other) ELSE FALSE

\* Port(...) / DPort(...) with trans=value
NewFromTrans(ps, k, flavour, meta, value) ==
    PutTrans([ps EXCEPT ![k] = [alive |-> TRUE, flavour |-> flavour,
                                meta |-> meta, trans |-> NoneRef,
                                dcplx |-> NoneRef]], k, value)

\* Port(...) / DPort(...) with dcplx_trans=value
NewFromDcplx(ps, k, flavour, meta, value) ==
    PutDcplx([ps EXCEPT ![k] = [alive |-> TRUE, flavour |-> flavour,
                                meta |-> meta, trans |-> NoneRef,
                                dcplx |-> NoneRef]], k, value)

\* Port(angle=, center=, mirror_x=): kdb.Trans(angle, mirror_x, *center);
\* DPort(angle=, center=): DCplxTrans.R0, then the center and angle setters
NewFromAngle(ps, k, flavour, meta, angle, center, mirror_x) ==
    IF flavour = "Port"
    THEN NewFromTrans(ps, k, flavour, meta,
                      STrans(angle, mirror_x, center.x, center.y))
    ELSE SetDangle(SetDcenter(NewFromDcplx(ps, k, flavour, meta,
                                           CTrans(1, 0, FALSE, 0, 0)),
                              k, center),
                   k, angle)

\* Port(port=ps[src]) / DPort(port=ps[src]): BasePort(**base.model_dump())
NewFromPort(ps, src, dst, flavour) ==
    [BaseCopy(ps, src, dst) EXCEPT ![dst].flavour = flavour]

\* ------------------------------------------------------------------------
\* Part II - the port operations as actions
\* ------------------------------------------------------------------------
\* operations on p after its construction, and on q after it was made
MaxOps == 2

MaxCopyOps == 1

\* the values the operations are called with
Flavours == {"Port", "DPort"}

PortMeta ==
    [name |-> "o1", cs |-> [layer |-> 1, width |-> 500],
     port_type |-> "optical", info |-> <<>>]

SimpleArgs ==
    {STrans(0, FALSE, 0, 0), STrans(1, FALSE, 1, -2),
     STrans(2, TRUE, 1, -2), STrans(3, TRUE, 0, 0)}

ComplexArgs ==
    {CTrans(1, 45, FALSE, 0, 0),    \* not a multiple of 90 degrees
     CTrans(1, 90, FALSE, 3, -1),   \* off the grid, rounds to (2, -1)
     CTrans(2, 0, FALSE, 2, 0),     \* magnified
     CTrans(1, 180, TRUE, 2, -4)}   \* a simple transformation

CopyArgs ==
    {[kind |-> "S", t |-> STrans(0, FALSE, 0, 0)],
     [kind |-> "S", t |-> STrans(1, TRUE, 1, 0)],
     [kind |-> "C", t |-> CTrans(1, 45, FALSE, 0, 0)],
     [kind |-> "C", t |-> CTrans(1, 90, FALSE, 1, 0)]}

DbuValues == {0, 3}

UmValues == {3, 4}

Quadrants == {1, 2}

Degrees == {45, 180}

InitPort ==
    /\ ports = [k \in PortNames |-> NoPort]
    /\ last = NoOp
    /\ nops = [k \in PortNames |-> 0]
    /\ NetIdle
    /\ backbone = <<>>
    /\ pc = "idle"
    /\ idx = 0
    /\ start_offset = 0
    /\ effective_radius = 0
    /\ bends = <<>>
    /\ factory_calls = <<>>
    /\ insts = <<>>
    /\ c_insts = <<>>
    /\ c_before = <<>>
    /\ cursor = StartPort
    /\ err = NoError
    /\ AuxIdle

Did(op, k, arg, res) == [op |-> op, k |-> k, arg |-> arg, res |-> res]

\* port k exists and may be operated on: p until q is made from it
Ready(k) ==
    /\ ports[k].alive
    /\ IF k = "p" THEN ~ports["q"].alive /\ nops[k] < MaxOps
       ELSE nops[k] < MaxCopyOps

Count(k) == nops' = [nops EXCEPT ![k] = @ + 1]

\* port k exists and may be read: a read is not counted
Readable(k) == ports[k].alive /\ (k = "p" => ~ports["q"].alive)

\* p = Port(...) or DPort(...), any of the three constructor forms
Construct ==
    /\ ~ports["p"].alive
    /\ \E fl \in Flavours :
        \/ \E t \in SimpleArgs :
              /\ ports' = NewFromTrans(ports, "p", fl, PortMeta, t)
              /\ last' = Did("new_trans", "p", t, Ok(<<>>))
        \/ \E c \in ComplexArgs :
              /\ ports' = NewFromDcplx(ports, "p", fl, PortMeta, c)
              /\ last' = Did("new_dcplx", "p", c, Ok(<<>>))
        \/ \E a \in (IF fl = "Port" THEN Quadrants ELSE Degrees),
              x \in (IF fl = "Port" THEN DbuValues ELSE UmValues),
              mx \in BOOLEAN :
              /\ ports' = NewFromAngle(ports, "p", fl, PortMeta, a,
                                       [x |-> x, y |-> 0], mx)
              /\ last' = Did("new_angle", "p", <<a, x, mx>>, Ok(<<>>))
    /\ UNCHANGED <<routeVars, netVars, auxVars, nops>>

\* q = Port(port=p) or DPort(port=p)
ConstructFromPort ==
    /\ ports["p"].alive /\ ~ports["q"].alive
    /\ \E fl \in Flavours :
          /\ ports' = NewFromPort(ports, "p", "q", fl)
          /\ last' = Did("new_port", "q", fl, Ok(<<>>))
    /\ UNCHANGED <<routeVars, netVars, auxVars, nops>>

\* q = p.copy(trans, post_trans)
Copy ==
    /\ ports["p"].alive /\ ~ports["q"].alive
    /\ \E t1 \in CopyArgs, t2 \in CopyArgs :
          /\ CopyExact(ports["p"], t1, t2)
          /\ ports' = Transformed(ports, "p", "q", t1, t2)
          /\ last' = Did("copy", "q", <<t1, t2>>, Ok(<<>>))
    /\ UNCHANGED <<routeVars, netVars, auxVars, nops>>

\* q = p.copy_polar(d, d_orth, angle, mirror): the angle of Port.copy_polar
\* is in quadrants, that of DPort.copy_polar in degrees
CopyPolar ==
    /\ ports["p"].alive /\ ~ports["q"].alive
    /\ \E d \in {0, 1}, m \in BOOLEAN :
          LET t1 == [kind |-> "S", t |-> STrans(0, FALSE, 0, 0)]
              t2 == IF ports["p"].flavour = "Port"
                    THEN [kind |-> "S", t |-> STrans(2, m, d, 0)]
                    ELSE [kind |-> "C", t |-> CTrans(1, 180, m, d, 0)]
          IN  /\ CopyExact(ports["p"], t1, t2)
              /\ ports' = Transformed(ports, "p", "q", t1, t2)
              /\ last' = Did("copy_polar", "q", <<t1, t2>>, Ok(<<>>))
    /\ UNCHANGED <<routeVars, netVars, auxVars, nops>>

\* port.name = value
AssignName(k) ==
    /\ \E v \in {"o1", "o2"} :
          /\ Ready(k) /\ Count(k)
          /\ ports' = [ports EXCEPT ![k].meta.name = v]
          /\ last' = Did("set_name", k, v, Ok(<<>>))
    /\ UNCHANGED <<routeVars, netVars, auxVars>>

\* port.trans = value
AssignTrans(k) ==
    /\ \E t \in SimpleArgs :
          /\ Ready(k) /\ Count(k)
          /\ ports' = SetTrans(ports, k, t)
          /\ last' = Did("set_trans", k, t, Ok(<<>>))
    /\ UNCHANGED <<routeVars, netVars, auxVars>>

\* port.dcplx_trans = value
AssignDcplxTrans(k) ==
    /\ \E c \in ComplexArgs :
          /\ Ready(k) /\ Count(k)
          /\ ports' = SetDcplxTrans(ports, k, c)
          /\ last' = Did("set_dcplx_trans", k, c, Ok(<<>>))
    /\ UNCHANGED <<routeVars, netVars, auxVars>>

\* port.x = value: Port.x in database units, DPort.x in um
AssignX(k) ==
    /\ Ready(k) /\ Count(k)
    /\ \E v \in (IF ports[k].flavour = "Port" THEN DbuValues ELSE UmValues) :
          /\ ports' = IF ports[k].flavour = "Port"
                      THEN PortSetX(ports, k, v) ELSE SetDx(ports, k, v)
          /\ last' = Did("set_x", k, v, Ok(<<>>))
    /\ UNCHANGED <<routeVars, netVars, auxVars>>

\* port.y = value: Port.y in database units, DPort.y in um
AssignY(k) ==
    /\ Ready(k) /\ Count(k)
    /\ \E v \in (IF ports[k].flavour = "Port" THEN DbuValues ELSE UmValues) :
          /\ ports' = IF ports[k].flavour = "Port"
                      THEN PortSetY(ports, k, v) ELSE SetDy(ports, k, v)
          /\ last' = Did("set_y", k, v, Ok(<<>>))
    /\ UNCHANGED <<routeVars, netVars, auxVars>>

\* port.center = (v, v): ProtoPort.center for Port, DPort.center for DPort
AssignCenter(k) ==
    /\ Ready(k) /\ Count(k)
    /\ \E v \in (IF ports[k].flavour = "Port" THEN DbuValues ELSE UmValues) :
          /\ ports' = IF ports[k].flavour = "Port"
                      THEN PortSetCenter(ports, k, [x |-> v, y |-> v])
                      ELSE SetDcenter(ports, k, [x |-> v, y |-> v])
          /\ last' = Did("set_center", k, v, Ok(<<>>))
    /\ UNCHANGED <<routeVars, netVars, auxVars>>

\* port.dcenter = (v, 0), of either flavour
AssignDcenter(k) ==
    /\ \E v \in UmValues :
          /\ Ready(k) /\ Count(k)
          /\ ports' = SetDcenter(ports, k, [x |-> v, y |-> 0])
          /\ last' = Did("set_dcenter", k, v, Ok(<<>>))
    /\ UNCHANGED <<routeVars, netVars, auxVars>>

\* port.angle = value: Port.angle in quadrants, DPort.angle in degrees
AssignAngle(k) ==
    /\ Ready(k) /\ Count(k)
    /\ \E v \in (IF ports[k].flavour = "Port" THEN Quadrants ELSE Degrees) :
          /\ ports' = IF ports[k].flavour = "Port"
                      THEN PortSetAngle(ports, k, v)
                      ELSE SetDangle(ports, k, v)
          /\ last' = Did("set_angle", k, v, Ok(<<>>))
    /\ UNCHANGED <<routeVars, netVars, auxVars>>

\* port.dangle = value, of either flavour
AssignDangle(k) ==
    /\ \E v \in Degrees :
          /\ Ready(k) /\ Count(k)
          /\ ports' = SetDangle(ports, k, v)
          /\ last' = Did("set_dangle", k, v, Ok(<<>>))
    /\ UNCHANGED <<routeVars, netVars, auxVars>>

\* port.orientation = value, of either flavour
AssignOrientation(k) ==
    /\ \E v \in Degrees :
          /\ Ready(k) /\ Count(k)
          /\ ports' = SetOrientation(ports, k, v)
          /\ last' = Did("set_orientation", k, v, Ok(<<>>))
    /\ UNCHANGED <<routeVars, netVars, auxVars>>

\* port.mirror = value: DPort.mirror assigns self.mirror again and ends in
\* a RecursionError without a change
AssignMirror(k) ==
    /\ \E v \in BOOLEAN :
          /\ Ready(k) /\ Count(k)
          /\ ports' = IF ports[k].flavour = "Port"
                      THEN SetMirror(ports, k, v) ELSE ports
          /\ last' = Did("set_mirror", k, v,
                         IF ports[k].flavour = "Port" THEN Ok(<<>>)
                         ELSE Raised("RecursionError"))
    /\ UNCHANGED <<routeVars, netVars, auxVars>>

\* port.dcplx_trans = <the value just read from port.dcplx_trans>
AssignBack(k) ==
    /\ Ready(k) /\ Count(k)
    /\ last.op = "get_dcplx_trans" /\ last.k = k
    /\ ports' = SetDcplxTrans(ports, k, last.res.v)
    /\ last' = Did("set_back", k, last.res.v, Ok(<<>>))
    /\ UNCHANGED <<routeVars, netVars, auxVars>>

\* a read of port.trans
ReadTrans(k) ==
    /\ Readable(k)
    /\ last' = Did("get_trans", k, <<>>, Ok(GetTrans(ports[k])))
    /\ UNCHANGED <<routeVars, netVars, auxVars, ports, nops>>

\* a read of port.dcplx_trans
ReadDcplxTrans(k) ==
    /\ Readable(k)
    /\ last' = Did("get_dcplx_trans", k, <<>>, Ok(GetDcplx(ports[k])))
    /\ UNCHANGED <<routeVars, netVars, auxVars, ports, nops>>

\* a read of port.mirror: ProtoPort.mirror for a Port; DPort.mirror returns
\* self.mirror, calls itself again and ends in a RecursionError
ReadMirror(k) ==
    /\ Readable(k)
    /\ last' = Did("get_mirror", k, <<>>,
                   IF ports[k].flavour = "Port"
                   THEN Ok(<<GetTrans(ports[k]).mirror>>)
                   ELSE Raised("RecursionError"))
    /\ UNCHANGED <<routeVars, netVars, auxVars, ports, nops>>

\* p == q, q == p and q == q
Compare ==
    /\ Ready("q") /\ Count("q")
    /\ last' = Did("eq", "q", <<>>,
                   Ok(<<PortEq(ports["p"], ports["q"]),
                        PortEq(ports["q"], ports["p"]),
                        PortEq(ports["q"], ports["q"])>>))
    /\ UNCHANGED <<routeVars, netVars, auxVars, ports>>

\* the operations on one port
NextPort ==
    \/ Construct
    \/ AssignName("p") \/ AssignTrans("p") \/ AssignDcplxTrans("p")
    \/ AssignX("p") \/ AssignY("p") \/ AssignCenter("p") \/ AssignDcenter("p")
    \/ AssignAngle("p") \/ AssignDangle("p") \/ AssignOrientation("p")
    \/ AssignMirror("p")
    \/ ReadTrans("p") \/ ReadDcplxTrans("p") \/ AssignBack("p")
    \/ ReadMirror("p")

SpecPort == InitPort /\ [][NextPort]_vars

\* a port, a port made from it and the operations on that second port
NextCopy ==
    \/ Construct \/ AssignTrans("p") \/ AssignDcplxTrans("p")
    \/ ConstructFromPort \/ Copy \/ CopyPolar
    \/ AssignName("q") \/ AssignTrans("q") \/ AssignX("q")
    \/ AssignOrientation("q") \/ AssignDangle("q") \/ AssignMirror("q")
    \/ Compare

SpecCopy == InitPort /\ [][NextCopy]_vars

\* ------------------------------------------------------------------------
\* Part III - netlist extraction: ProtoTKCell.circuit() and l2n()
\* ------------------------------------------------------------------------
\* a port as circuit() sees it: Port objects made from the bases, so that
\* port.trans is a Simple transformation
CPort(name, x, layer, rot, width, ptype) ==
    [name |-> name, trans |-> STrans(rot, FALSE, x, 0), layer |-> layer,
     width |-> width, port_type |-> ptype]

\* kdb.Trans.R180, kdb.Trans.M90 and kdb.Trans.M0
R180 == STrans(2, FALSE, 0, 0)

M90 == STrans(2, TRUE, 0, 0)

M0 == STrans(0, TRUE, 0, 0)

\* PortCheck.all_opposite and PortCheck.all_overlap
all_opposite == {"opposite", "width", "port_type", "layer"}

all_overlap == {"width", "port_type", "layer"}

\* port_check(p1, p2, checks): the assertion that fails first, "" if none
port_checkMut(p1, p2, checks) == ""

port_check(p1, p2, checks) ==
    IF /\ "opposite" \in checks
       /\ p1.trans # SMul(p2.trans, R180) /\ p1.trans # SMul(p2.trans, M90)
    THEN "opposite"
    ELSE IF /\ "opposite" \notin checks
            /\ p1.trans # p2.trans /\ p1.trans # SMul(p2.trans, M0)
    THEN "overlapping"
    ELSE IF "width" \in checks /\ p1.width # p2.width THEN "width"
    ELSE IF "layer" \in checks /\ p1.layer # p2.layer THEN "layer"
    ELSE IF "port_type" \in checks /\ p1.port_type # p2.port_type
    THEN "port_type"
    ELSE ""

\* the elements of a set of numbers in ascending order
RECURSIVE Ordered(_)
Ordered(S) ==
    IF S = {} THEN <<>>
    ELSE LET m == CHOOSE x \in S : \A y \in S : x <= y
         IN  <<m>> \o Ordered(S \ {m})

\* the keys h and layer of the dicts cell_ports and inst_ports
Bucket(port) == [x |-> port.trans.x, y |-> port.trans.y, layer |-> port.layer]

\* port_filter over enumerate(ports): the indices of the boundary ports of
\* cell c that are extracted
CellPortIdx(c, types) ==
    {i \in 1 .. Len(c.ports) : c.ports[i].port_type \in types}

\* port_filter over the ports of the instances of cell c
InstPortIdx(c, types) ==
    {i \in 1 .. Len(c.insts) : c.insts[i].port.port_type \in types}

\* `if port.name in portnames: raise ValueError`, portnames holding the
\* names, other than None, of the ports seen before
DuplicateNameMut(c, types) ==
    \E i, j \in CellPortIdx(c, types) :
        /\ i < j /\ c.ports[i].name # "" /\ c.ports[i].name = c.ports[j].name
        /\ Bucket(c.ports[i]) = Bucket(c.ports[j])

DuplicateName(c, types) ==
    \E i, j \in CellPortIdx(c, types) :
        i < j /\ c.ports[i].name # "" /\ c.ports[i].name = c.ports[j].name

\* cell_ports[h][layer]: the indices of the boundary ports in bucket b
cell_ports(c, types, b) ==
    Ordered({i \in CellPortIdx(c, types) : Bucket(c.ports[i]) = b})

\* inst_ports[h][layer]: the indices of the instances with a port in b
inst_ports(c, types, b) ==
    Ordered({i \in InstPortIdx(c, types) : Bucket(c.insts[i].port) = b})

\* the buckets of inst_ports in the order the dict yields them
InstBuckets(c, types) ==
    LET first == {i \in InstPortIdx(c, types) :
                    \A j \in InstPortIdx(c, types) :
                        j < i => Bucket(c.insts[j].port) # Bucket(c.insts[i].port)}
        ord   == Ordered(first)
    IN  [k \in 1 .. Len(ord) |-> Bucket(c.insts[ord[k]].port)]

\* the buckets of cell_ports
CellBuckets(c, types) == {Bucket(c.ports[i]) : i \in CellPortIdx(c, types)}

\* the connection of the instance ports of bucket b: the assertion that
\* fails, "" if none
ConnectErrorMut(c, types, b) ==
    LET cellports == cell_ports(c, types, b)
        ports_    == inst_ports(c, types, b)
    IN  IF Len(cellports) > 0
        THEN IF Len(ports_) # 1 THEN "multiple_instance_ports"
             ELSE port_check(c.ports[cellports[1]], c.insts[ports_[1]].port,
                             all_overlap)
        ELSE IF Len(ports_) > 2 THEN "more_than_two_ports"
        ELSE IF Len(ports_) = 2
        THEN port_check(c.insts[ports_[1]].port, c.insts[ports_[2]].port,
                        all_opposite)
        ELSE ""

ConnectError(c, types, b) ==
    LET cellports == cell_ports(c, types, b)
        ports_    == inst_ports(c, types, b)
    IN  IF Len(cellports) > 0
        THEN IF Len(cellports) # 1 THEN "directly_connected_cell_ports"
             ELSE IF Len(ports_) # 1 THEN "multiple_instance_ports"
             ELSE port_check(c.ports[cellports[1]], c.insts[ports_[1]].port,
                             all_overlap)
        ELSE IF Len(ports_) > 2 THEN "more_than_two_ports"
        ELSE IF Len(ports_) = 2
        THEN port_check(c.insts[ports_[1]].port, c.insts[ports_[2]].port,
                        all_opposite)
        ELSE ""

\* the first bucket, in the order of the loop, whose connection fails
FailingBuckets(c, types) ==
    LET bs == InstBuckets(c, types)
    IN  {k \in 1 .. Len(bs) : ConnectError(c, types, bs[k]) # ""}

\* the nets circuit() creates: one per bucket of boundary ports, one per
\* bucket of instance ports without boundary port
Nets(c, types) ==
    {[kind |-> "cell", b |-> b] : b \in CellBuckets(c, types)}
    \cup {[kind |-> "inst", b |-> Bucket(c.insts[i].port)] :
             i \in {j \in InstPortIdx(c, types) :
                      Bucket(c.insts[j].port) \notin CellBuckets(c, types)}}

\* circ.connect_pin: every extracted boundary port has a pin on its net
Pins(c, types) ==
    {[port |-> i, net |-> [kind |-> "cell", b |-> Bucket(c.ports[i])]] :
        i \in CellPortIdx(c, types)}

\* Connections with the single instance port of a bucket connected too
ConnectionsMut(c, types) ==
    {[inst |-> i,
      net |-> [kind |-> IF Bucket(c.insts[i].port) \in CellBuckets(c, types)
                        THEN "cell" ELSE "inst",
               b |-> Bucket(c.insts[i].port)]] : i \in InstPortIdx(c, types)}

\* subc.connect_pin: the instance port of a boundary bucket is connected to
\* the net of the boundary port, two instance ports of a bucket to their net
Connections(c, types) ==
    {[inst |-> i,
      net |-> [kind |-> IF Bucket(c.insts[i].port) \in CellBuckets(c, types)
                        THEN "cell" ELSE "inst",
               b |-> Bucket(c.insts[i].port)]] :
        i \in {j \in InstPortIdx(c, types) :
                 \/ Bucket(c.insts[j].port) \in CellBuckets(c, types)
                 \/ Len(inst_ports(c, types, Bucket(c.insts[j].port))) = 2}}

\* the cells whose circuit is in the netlist nl
Extracted(nl) == {nl[k].cell : k \in 1 .. Len(nl)}

\* circ.create_subcircuit(netlist.circuit_by_cell_index(inst.cell_index), name)
Subcircuits(c, nl) ==
    [i \in 1 .. Len(c.insts) |->
        [cell |-> c.insts[i].cell, ref |-> c.insts[i].cell \in Extracted(nl)]]

NoCircuit == [cell |-> 0, nets |-> {}, pins |-> {}, conns |-> {},
              subcircuits |-> <<>>]

\* cell.circuit(l2n) of the cell c with index id, the netlist holding nl:
\* the exception raised, or the circuit added to the netlist
Circuit(id, c, types, nl) ==
    IF DuplicateName(c, types)
    THEN [exc |-> "ValueError", what |-> "colliding_port_names",
          circ |-> NoCircuit]
    ELSE IF FailingBuckets(c, types) # {}
    THEN [exc |-> "AssertionError",
          what |-> ConnectError(c, types,
                       InstBuckets(c, types)[
                           CHOOSE k \in FailingBuckets(c, types) :
                              \A m \in FailingBuckets(c, types) : k <= m]),
          circ |-> NoCircuit]
    ELSE [exc |-> "", what |-> "",
          circ |-> [cell |-> id, nets |-> Nets(c, types),
                    pins |-> Pins(c, types), conns |-> Connections(c, types),
                    subcircuits |-> Subcircuits(c, nl)]]

\* a netlist.add(circ) made as soon as circ is created
CommitMut(nl, id, r) == Append(nl, [r.circ EXCEPT !.cell = id])

\* the netlist nl after cell.circuit(l2n) with outcome r on the cell id:
\* netlist.add(circ) is the last statement, reached only if nothing raised
Commit(nl, id, r) == IF r.exc = "" THEN Append(nl, r.circ) ELSE nl

\* most boundary ports and most instances of the cell that is extracted
MaxCellPorts == 2

MaxInstPorts == 3

\* the sequences over S of length at most n
SeqsUpTo(S, n) == UNION {[1 .. k -> S] : k \in 0 .. n}

\* the boundary ports the cell is built from
BoundaryChoices ==
    {CPort("o1", 0, 1, 0, 500, "optical"),
     CPort("", 0, 1, 0, 500, "optical"),
     CPort("o2", 0, 1, 0, 1000, "optical"),
     CPort("o1", 10, 1, 0, 500, "electrical")}

\* the ports of the instances, one port per instance, in the cell's
\* coordinates
InstChoices ==
    {CPort("o1", 0, 1, 0, 500, "optical"),
     CPort("o1", 0, 1, 2, 500, "optical"),
     CPort("o1", 0, 1, 2, 1000, "optical"),
     CPort("o1", 0, 1, 2, 500, "electrical"),
     CPort("o1", 0, 2, 2, 500, "optical")}

PortTypeChoices == {{"optical"}, {"optical", "electrical"}}

\* the cell all instances of the extracted cell refer to
Leaf == [ports |-> <<CPort("o1", 0, 1, 0, 500, "optical")>>, insts |-> <<>>]

\* cell 1 with the boundary ports ps and one instance of cell 2 per port of ip
CellOf(ps, ip) ==
    [ports |-> ps,
     insts |-> [i \in 1 .. Len(ip) |-> [cell |-> 2, port |-> ip[i]]]]

\* the call cell.circuit(l2n) on a netlist that holds the circuit of cell 2
InitCircuit ==
    /\ \E ps \in SeqsUpTo(BoundaryChoices, MaxCellPorts),
          ip \in SeqsUpTo(InstChoices, MaxInstPorts) :
          /\ cells = <<CellOf(ps, ip), Leaf>>
          /\ calls = IF ip = <<>> THEN {} ELSE {<<1, 2>>}
    /\ port_types \in PortTypeChoices
    /\ netlist = <<Circuit(2, Leaf, port_types, <<>>).circ>>
    /\ todo = <<>>
    /\ npc = "circuit"
    /\ nerr = [kind |-> "none", what |-> "none"]
    /\ db = <<>>
    /\ PortsIdle
    /\ backbone = <<>>
    /\ pc = "idle"
    /\ idx = 0
    /\ start_offset = 0
    /\ effective_radius = 0
    /\ bends = <<>>
    /\ factory_calls = <<>>
    /\ insts = <<>>
    /\ c_insts = <<>>
    /\ c_before = <<>>
    /\ cursor = StartPort
    /\ err = NoError
    /\ AuxIdle

\* cells[1].circuit(l2n, port_types)
CircuitCall ==
    /\ npc = "circuit"
    /\ LET r == Circuit(1, cells[1], port_types, netlist)
       IN  /\ netlist' = Commit(netlist, 1, r)
           /\ IF r.exc = ""
              THEN /\ npc' = "done"
                   /\ nerr' = nerr
              ELSE /\ npc' = "raised"
                   /\ nerr' = [kind |-> r.exc, what |-> r.what]
    /\ UNCHANGED <<cells, calls, port_types, todo, db>>
    /\ UNCHANGED <<routeVars, portVars, auxVars>>

NextCircuit == CircuitCall

SpecCircuit == InitCircuit /\ [][NextCircuit]_vars

\* ------------------------------------------------------------------------
\* l2n(): the circuits of a cell hierarchy
\* ------------------------------------------------------------------------
\* number of cells of the layout; l2n() is called on cell 1
MaxCells == 3

CellIds == 1 .. MaxCells

\* the cells a cell instantiates
Callees(i) == {j \in CellIds : <<i, j>> \in calls}

\* the call graphs of a layout: no cell instantiates itself, directly or
\* through other cells
Hierarchies ==
    {g \in SUBSET {e \in CellIds \X CellIds : e[1] # e[2]} :
        \E f \in [CellIds -> 0 .. MaxCells - 1] :
            \A e \in g : f[e[1]] > f[e[2]]}

\* cell.hierarchy_levels(): the number of hierarchy levels below the cell
RECURSIVE hierarchy_levels(_)
hierarchy_levels(i) ==
    IF Callees(i) = {} THEN 0
    ELSE 1 + (CHOOSE m \in {hierarchy_levels(j) : j \in Callees(i)} :
                 \A j \in Callees(i) : hierarchy_levels(j) <= m)

\* cell.called_cells(): the cells instantiated directly or indirectly
RECURSIVE called_cells(_)
called_cells(i) ==
    Callees(i) \cup UNION {called_cells(j) : j \in Callees(i)}

\* the sort key with the deepest cells first
SortKeyMut(i) == 0 - hierarchy_levels(i)

\* key=lambda c: c.hierarchy_levels()
SortKey(i) == hierarchy_levels(i)

\* called_kcells.sort(key=...): ascending by key, cells with the same key in
\* the order of called_cells(), which is the order of the cell indexes
RECURSIVE Sorted(_)
Sorted(S) ==
    IF S = {} THEN <<>>
    ELSE LET i == CHOOSE a \in S :
                     \A b \in S : \/ SortKey(a) < SortKey(b)
                                  \/ SortKey(a) = SortKey(b) /\ a <= b
         IN  <<i>> \o Sorted(S \ {i})

\* an exception of c.circuit() handled inside the loop, which goes on with
\* the next cell
UnwindMut(td) == [npc |-> "loop", todo |-> Tail(td)]

\* an exception of c.circuit() leaves the loop and l2n(): no later cell is
\* visited
Unwind(td) == [npc |-> "raised", todo |-> td]

\* the boundary ports of a cell: one port, or two ports with the same name
\* and different port types
CellKinds == {"ok", "dup"}

KindPorts(kind) ==
    IF kind = "ok" THEN <<CPort("o1", 0, 1, 0, 500, "optical")>>
    ELSE <<CPort("o1", 0, 1, 0, 500, "optical"),
           CPort("o1", 10, 1, 0, 500, "electrical")>>

\* the cell i of the hierarchy g: one instance of every cell it calls, each
\* at a point of its own
HierCell(i, kind, g) ==
    LET cs == Ordered({j \in CellIds : <<i, j>> \in g})
    IN  [ports |-> KindPorts(kind),
         insts |-> [k \in 1 .. Len(cs) |->
                      [cell |-> cs[k],
                       port |-> CPort("o1", 100 * cs[k], 1, 0, 500, "optical")]]]

\* the call l2n(port_types) on cell 1 of a layout
InitL2n ==
    /\ \E g \in Hierarchies, kinds \in [CellIds -> CellKinds] :
          /\ calls = g
          /\ cells = [i \in CellIds |-> HierCell(i, kinds[i], g)]
    /\ port_types \in PortTypeChoices
    /\ netlist = <<>>
    /\ todo = <<>>
    /\ npc = "l2n"
    /\ nerr = [kind |-> "none", what |-> "none"]
    /\ db = <<>>
    /\ PortsIdle
    /\ backbone = <<>>
    /\ pc = "idle"
    /\ idx = 0
    /\ start_offset = 0
    /\ effective_radius = 0
    /\ bends = <<>>
    /\ factory_calls = <<>>
    /\ insts = <<>>
    /\ c_insts = <<>>
    /\ c_before = <<>>
    /\ cursor = StartPort
    /\ err = NoError
    /\ AuxIdle

\* called_kcells = [...]; called_kcells.sort(...)
L2nSort ==
    /\ npc = "l2n"
    /\ todo' = Sorted(called_cells(1))
    /\ npc' = "loop"
    /\ UNCHANGED <<cells, calls, port_types, netlist, nerr, db>>
    /\ UNCHANGED <<routeVars, portVars, auxVars>>

\* for c in called_kcells: c.circuit(l2n, port_types=port_types)
L2nCircuit ==
    /\ npc = "loop"
    /\ todo # <<>>
    /\ LET r == Circuit(Head(todo), cells[Head(todo)], port_types, netlist)
       IN  /\ netlist' = Commit(netlist, Head(todo), r)
           /\ IF r.exc = ""
              THEN /\ todo' = Tail(todo)
                   /\ npc' = npc
                   /\ nerr' = nerr
              ELSE /\ todo' = Unwind(todo).todo
                   /\ npc' = Unwind(todo).npc
                   /\ nerr' = [kind |-> r.exc, what |-> r.what]
    /\ UNCHANGED <<cells, calls, port_types, db>>
    /\ UNCHANGED <<routeVars, portVars, auxVars>>

\* self.circuit(l2n, port_types=port_types); return l2n
L2nTop ==
    /\ npc = "loop"
    /\ todo = <<>>
    /\ LET r == Circuit(1, cells[1], port_types, netlist)
       IN  /\ netlist' = Commit(netlist, 1, r)
           /\ IF r.exc = ""
              THEN /\ npc' = "done"
                   /\ nerr' = nerr
              ELSE /\ npc' = "raised"
                   /\ nerr' = [kind |-> r.exc, what |-> r.what]
    /\ UNCHANGED <<cells, calls, port_types, todo, db>>
    /\ UNCHANGED <<routeVars, portVars, auxVars>>

NextL2n == L2nSort \/ L2nCircuit \/ L2nTop

SpecL2n == InitL2n /\ [][NextL2n]_vars

\* ------------------------------------------------------------------------
\* connectivity_check(): the report of a cell
\* ------------------------------------------------------------------------
\* a port as connectivity_check() sees it: stored tells which transformation
\* the base of the port holds
KPort(name, x, layer, rot, width, ptype, stored) ==
    [name |-> name, trans |-> STrans(rot, FALSE, x, 0), layer |-> layer,
     width |-> width, port_type |-> ptype, stored |-> stored]

\* check_cell_ports(p1, p2): the bits of the differences between a boundary
\* port and the instance port on it (1 width, 2 angle, 4 port type)
check_cell_ports(p1, p2) ==
    (IF p1.width # p2.width THEN {1} ELSE {})
    \cup (IF p1.trans.rot # p2.trans.rot THEN {2} ELSE {})
    \cup (IF p1.port_type # p2.port_type THEN {4} ELSE {})

\* check_inst_ports(p1, p2): the same bits for two instance ports, which
\* agree in angle when they face each other
check_inst_ports(p1, p2) ==
    (IF p1.width # p2.width THEN {1} ELSE {})
    \cup (IF p1.trans.rot # (p2.trans.rot + 2) % 4 THEN {2} ELSE {})
    \cup (IF p1.port_type # p2.port_type THEN {4} ELSE {})

\* the arguments port_types and layers of one call
Filter(types, lys) == [types |-> types, layers |-> lys]

\* (not port_types or port.port_type in port_types) and
\* (not layers or port.layer in layers)
Passes(port, flt) ==
    /\ flt.types = {} \/ port.port_type \in flt.types
    /\ flt.layers = {} \/ port.layer \in flt.layers

ChkCellIdx(c, flt) ==
    {i \in 1 .. Len(c.ports) : Passes(c.ports[i], flt)}

ChkInstIdx(c, flt) ==
    {i \in 1 .. Len(c.insts) : Passes(c.insts[i].port, flt)}

\* cell_ports[layer][xy] and inst_ports[layer][xy]
ChkCellPorts(c, flt, b) ==
    Ordered({i \in ChkCellIdx(c, flt) : Bucket(c.ports[i]) = b})

ChkInstPorts(c, flt, b) ==
    Ordered({i \in ChkInstIdx(c, flt) : Bucket(c.insts[i].port) = b})

\* the buckets of inst_ports as the two nested loops visit them: layer by
\* layer, the layers and the points of a layer in the order of insertion
ChkBuckets(c, flt) ==
    LET sel      == ChkInstIdx(c, flt)
        first    == {i \in sel : \A j \in sel :
                        j < i => Bucket(c.insts[j].port) # Bucket(c.insts[i].port)}
        layer1(i) == CHOOSE j \in sel :
                        /\ c.insts[j].port.layer = c.insts[i].port.layer
                        /\ \A k \in sel :
                              c.insts[k].port.layer = c.insts[i].port.layer
                                 => j <= k
        key(i)   == layer1(i) * (Len(c.insts) + 1) + i
        ord      == Ordered({key(i) : i \in first})
    IN  [k \in 1 .. Len(ord) |->
            Bucket(c.insts[ord[k] % (Len(c.insts) + 1)].port)]

\* port_polygon(width).transformed(trans), in micrometres
Poly(port) ==
    [width |-> port.width, x |-> port.trans.x, y |-> port.trans.y,
     rot |-> port.trans.rot]

CellRef(i) == [kind |-> "cell", i |-> i]

InstRef(i) == [kind |-> "inst", i |-> i]

\* db.create_item(db_cell, category) with the values added to it
Item(id, cat, b, refs, values) ==
    [cell |-> id, cat |-> cat, layer |-> b.layer, x |-> b.x, y |-> b.y,
     ports |-> refs, values |-> values]

\* the items of the physical shape under the boundary port i
ShapeItems(id, c, i) ==
    IF c.overlap[i] = "partial"
    THEN <<Item(id, "PartialPhysicalShape", Bucket(c.ports[i]),
                <<CellRef(i)>>, <<Poly(c.ports[i])>>)>>
    ELSE IF c.overlap[i] = "none"
    THEN <<Item(id, "MissingPhysicalShape", Bucket(c.ports[i]),
                <<CellRef(i)>>, <<Poly(c.ports[i])>>)>>
    ELSE <<>>

\* the concatenation of a sequence of sequences
RECURSIVE Flatten(_)
Flatten(ss) == IF ss = <<>> THEN <<>> ELSE Head(ss) \o Flatten(Tail(ss))

\* the loop over the boundary ports
BoundaryItems(id, c, flt) ==
    LET sel == Ordered(ChkCellIdx(c, flt))
    IN  Flatten([k \in 1 .. Len(sel) |-> ShapeItems(id, c, sel[k])])

\* create_port_error once for each bit of the pairwise check
PairItems(id, b, bits, refs, values) ==
    (IF 1 \in bits THEN <<Item(id, "WidthMismatch", b, refs, values)>> ELSE <<>>)
    \o (IF 2 \in bits THEN <<Item(id, "AngleMismatch", b, refs, values)>> ELSE <<>>)
    \o (IF 4 \in bits THEN <<Item(id, "TypeMismatch", b, refs, values)>> ELSE <<>>)

\* the match without its case for more than two ports
MatchCaseMut(n) ==
    IF n = 1 THEN "one" ELSE IF n = 2 THEN "two" ELSE "unexpected"

\* match len(ports): case 1, case 2, case x if x > 2, case _
MatchCase(n) ==
    IF n = 1 THEN "one"
    ELSE IF n = 2 THEN "two"
    ELSE IF n > 2 THEN "many"
    ELSE "unexpected"

\* the value of an orphan port: of the port itself if its base stores a
\* Simple transformation, else of `port`, the variable the loop over the
\* instance ports left behind
OrphanPoly(c, i) ==
    IF c.insts[i].port.stored = "trans"
    THEN Poly(c.insts[i].port)
    ELSE Poly(c.insts[Len(c.insts)].port)

\* the bucket items with a pairwise check of the first two of many ports
BucketItemsMut(id, c, flt, b) ==
    LET ip == ChkInstPorts(c, flt, b)
        cp == ChkCellPorts(c, flt, b)
    IN  IF Len(ip) = 1
        THEN IF cp # <<>>
             THEN PairItems(id, b,
                      check_cell_ports(c.ports[cp[1]], c.insts[ip[1]].port),
                      <<InstRef(ip[1]), CellRef(cp[1])>>,
                      <<Poly(c.insts[ip[1]].port), Poly(c.ports[cp[1]])>>)
             ELSE <<Item(id, "OrphanPort", b, <<InstRef(ip[1])>>,
                         <<OrphanPoly(c, ip[1])>>)>>
        ELSE PairItems(id, b,
                 check_inst_ports(c.insts[ip[1]].port, c.insts[ip[2]].port),
                 <<InstRef(ip[1]), InstRef(ip[2])>>,
                 <<Poly(c.insts[ip[1]].port), Poly(c.insts[ip[2]].port)>>)
             \o (IF cp # <<>> \/ Len(ip) > 2
                 THEN <<Item(id, "portoverlap", b,
                             [k \in 1 .. Len(ip) |-> InstRef(ip[k])],
                             [k \in 1 .. Len(ip) |-> Poly(c.insts[ip[k]].port)])>>
                 ELSE <<>>)

\* the items of the bucket b of instance ports
BucketItems(id, c, flt, b) ==
    LET ip == ChkInstPorts(c, flt, b)
        cp == ChkCellPorts(c, flt, b)
        all == [k \in 1 .. Len(ip) |-> InstRef(ip[k])]
        polys == [k \in 1 .. Len(ip) |-> Poly(c.insts[ip[k]].port)]
    IN  CASE MatchCase(Len(ip)) = "one" ->
               IF cp # <<>>
               THEN PairItems(id, b,
                        check_cell_ports(c.ports[cp[1]], c.insts[ip[1]].port),
                        <<InstRef(ip[1]), CellRef(cp[1])>>,
                        <<Poly(c.insts[ip[1]].port), Poly(c.ports[cp[1]])>>)
               ELSE <<Item(id, "OrphanPort", b, <<InstRef(ip[1])>>,
                           <<OrphanPoly(c, ip[1])>>)>>
          [] MatchCase(Len(ip)) = "two" ->
               PairItems(id, b,
                   check_inst_ports(c.insts[ip[1]].port, c.insts[ip[2]].port),
                   <<InstRef(ip[1]), InstRef(ip[2])>>,
                   <<Poly(c.insts[ip[1]].port), Poly(c.insts[ip[2]].port)>>)
               \o (IF cp # <<>>
                   THEN <<Item(id, "portoverlap", b,
                               <<CellRef(cp[1])>> \o all,
                               <<Poly(c.ports[cp[1]])>> \o polys)>>
                   ELSE <<>>)
          [] MatchCase(Len(ip)) = "many" ->
               <<Item(id, "portoverlap", b, all, polys)>>
          [] OTHER -> <<>>

\* the buckets that reach `case _: raise ValueError`
Unexpected(c, flt) ==
    {k \in 1 .. Len(ChkBuckets(c, flt)) :
        MatchCase(Len(ChkInstPorts(c, flt, ChkBuckets(c, flt)[k])))
            = "unexpected"}

\* connectivity_check(recursive=False) of the cell c with index id: the
\* items added to the database up to the return or the exception
CheckCell(id, c, flt) ==
    LET bs == ChkBuckets(c, flt)
        stop == IF Unexpected(c, flt) = {} THEN Len(bs) + 1
                ELSE CHOOSE k \in Unexpected(c, flt) :
                        \A m \in Unexpected(c, flt) : k <= m
    IN  [exc |-> IF Unexpected(c, flt) = {} THEN "" ELSE "ValueError",
         items |-> BoundaryItems(id, c, flt)
                   \o Flatten([k \in 1 .. stop - 1 |->
                                  BucketItems(id, c, flt, bs[k])])]

\* the boundary ports and the shapes under them
CheckBoundaryChoices ==
    {[port |-> KPort("o1", 0, 1, 0, 500, "optical", "trans"),
      overlap |-> "full"],
     [port |-> KPort("o2", 0, 1, 2, 1000, "electrical", "dcplx_trans"),
      overlap |-> "none"],
     [port |-> KPort("", 0, 1, 0, 500, "optical", "trans"),
      overlap |-> "partial"],
     [port |-> KPort("o3", 10, 1, 0, 500, "optical", "dcplx_trans"),
      overlap |-> "partial"]}

\* the ports of the instances, one port per instance
CheckInstChoices ==
    {KPort("o1", 0, 1, 0, 500, "optical", "trans"),
     KPort("o1", 0, 1, 2, 500, "optical", "trans"),
     KPort("o1", 0, 1, 1, 1000, "electrical", "dcplx_trans"),
     KPort("o1", 0, 2, 2, 500, "optical", "dcplx_trans"),
     KPort("o1", 10, 1, 0, 500, "optical", "trans")}

\* port_types=None, or a list of port types
CheckTypeChoices == {{}, {"optical"}}

\* the cell the instances refer to: one port with no shape under it
CheckLeaf ==
    [ports |-> <<KPort("o1", 0, 1, 0, 500, "optical", "trans")>>,
     overlap |-> <<"none">>, insts |-> <<>>]

CheckCellOf(bs, ip) ==
    [ports |-> [i \in 1 .. Len(bs) |-> bs[i].port],
     overlap |-> [i \in 1 .. Len(bs) |-> bs[i].overlap],
     insts |-> [i \in 1 .. Len(ip) |-> [cell |-> 2, port |-> ip[i]]]]

\* the call cell.connectivity_check(port_types) on cell 1
InitCheck ==
    /\ \E bs \in SeqsUpTo(CheckBoundaryChoices, MaxCellPorts),
          ip \in SeqsUpTo(CheckInstChoices, MaxInstPorts) :
          /\ cells = <<CheckCellOf(bs, ip), CheckLeaf>>
          /\ calls = IF ip = <<>> THEN {} ELSE {<<1, 2>>}
    /\ port_types \in CheckTypeChoices
    /\ netlist = <<>>
    /\ todo = <<>>
    /\ npc = "check"
    /\ nerr = [kind |-> "none", what |-> "none"]
    /\ db = <<>>
    /\ PortsIdle
    /\ backbone = <<>>
    /\ pc = "idle"
    /\ idx = 0
    /\ start_offset = 0
    /\ effective_radius = 0
    /\ bends = <<>>
    /\ factory_calls = <<>>
    /\ insts = <<>>
    /\ c_insts = <<>>
    /\ c_before = <<>>
    /\ cursor = StartPort
    /\ err = NoError
    /\ AuxIdle

\* the recursive part: the called cells bottom up, each with
\* recursive=False; the first exception ends it
RECURSIVE CheckCalled(_, _)
CheckCalled(cs, flt) ==
    IF cs = <<>> THEN [exc |-> "", items |-> <<>>]
    ELSE LET r == CheckCell(Head(cs), cells[Head(cs)], flt)
             rest == CheckCalled(Tail(cs), flt)
         IN  IF r.exc # "" THEN r
             ELSE [exc |-> rest.exc, items |-> r.items \o rest.items]

\* cells[1].connectivity_check(port_types=port_types, layers=layers); the
\* called cells are checked with port_types=port_types and no layers
CheckCall ==
    /\ npc = "check"
    /\ LET sub == CheckCalled(Sorted(called_cells(1)), Filter(port_types, {}))
           own == CheckCell(1, cells[1], Filter(port_types, layers))
       IN  IF sub.exc # ""
           THEN /\ db' = sub.items
                /\ npc' = "raised"
                /\ nerr' = [kind |-> sub.exc, what |-> "unexpected_number_of_ports"]
           ELSE IF own.exc # ""
           THEN /\ db' = sub.items \o own.items
                /\ npc' = "raised"
                /\ nerr' = [kind |-> own.exc, what |-> "unexpected_number_of_ports"]
           ELSE /\ db' = sub.items \o own.items
                /\ npc' = "done"
                /\ nerr' = nerr
    /\ UNCHANGED <<cells, calls, port_types, todo, netlist>>
    /\ UNCHANGED <<routeVars, portVars, auxVars>>

NextCheck == CheckCall

SpecCheck == InitCheck /\ [][NextCheck]_vars

\* ------------------------------------------------------------------------
\* connectivity_check(): the allow-lists and the shapes under the ports
\* ------------------------------------------------------------------------
\* most boundary ports and most instances of the cell that is checked
MaxFilterCellPorts == 1

MaxFilterInstPorts == 1

\* a piece of the line the edge of a port lies on
Interval(lo, hi) == [lo |-> lo, hi |-> hi]

\* kdb.Edge(0, port.width // 2, 0, -port.width // 2), along its line
port_edge(port) == Interval((0 - port.width) \div 2, port.width \div 2)

\* p_edges & edges: the parts of the port edge that lie on a shape edge,
\* from the lowest on
phys_overlap(pe, edges) ==
    LET cut == {Interval(IF e.lo > pe.lo THEN e.lo ELSE pe.lo,
                         IF e.hi < pe.hi THEN e.hi ELSE pe.hi) : e \in edges}
        parts == {c \in cut : c.lo < c.hi}
        los == Ordered({c.lo : c \in parts})
    IN  [k \in 1 .. Len(los) |-> CHOOSE c \in parts : c.lo = los[k]]

\* the branches without the comparison of the overlap with the port edge
OverlapKindMut(port, edges) ==
    IF phys_overlap(port_edge(port), edges) = <<>> THEN "none" ELSE "full"

\* the branch taken for a port edge: `not is_empty() and [0] != port_edge`,
\* `elif is_empty()`, or neither
OverlapKind(port, edges) ==
    LET po == phys_overlap(port_edge(port), edges)
    IN  IF po # <<>> /\ po[1] # port_edge(port) THEN "partial"
        ELSE IF po = <<>> THEN "none"
        ELSE "full"

\* the merged edges of the shapes on the line of a port edge: pieces that
\* neither overlap nor touch
EdgeChoices ==
    LET pieces == {Interval(-250, 250), Interval(-300, 300),
                   Interval(-250, 0), Interval(100, 250),
                   Interval(260, 300)}
    IN  {es \in SUBSET pieces :
            /\ Cardinality(es) <= 2
            /\ \A e, f \in es : e # f => (e.hi < f.lo \/ f.hi < e.lo)}

\* the boundary ports of the checked cell with the shape edges under them
FilterBoundaryChoices ==
    {[port |-> pt, edges |-> es] :
        pt \in {KPort("o1", 0, 1, 0, 500, "optical", "trans"),
                KPort("o2", 0, 2, 0, 500, "electrical", "dcplx_trans")},
        es \in EdgeChoices}

FilterInstChoices ==
    {KPort("o1", 0, 1, 2, 500, "optical", "trans"),
     KPort("o1", 0, 2, 2, 500, "optical", "dcplx_trans"),
     KPort("o1", 0, 1, 2, 500, "electrical", "trans")}

\* layers=None, or a list of layers
LayerChoices == {{}, {1}, {2}}

FilterCellOf(bs, ip) ==
    [ports |-> [i \in 1 .. Len(bs) |-> bs[i].port],
     edges |-> [i \in 1 .. Len(bs) |-> bs[i].edges],
     overlap |-> [i \in 1 .. Len(bs) |-> OverlapKind(bs[i].port, bs[i].edges)],
     insts |-> [i \in 1 .. Len(ip) |-> [cell |-> 2, port |-> ip[i]]]]

\* the cell the instances refer to: a port on layer 1 with no shape edge
FilterLeaf ==
    [ports |-> <<KPort("o1", 0, 1, 0, 500, "optical", "trans")>>,
     edges |-> <<{}>>,
     overlap |-> <<OverlapKind(KPort("o1", 0, 1, 0, 500, "optical", "trans"), {})>>,
     insts |-> <<>>]

\* the call cell.connectivity_check(port_types, layers) on cell 1
InitFilter ==
    /\ \E bs \in SeqsUpTo(FilterBoundaryChoices, MaxFilterCellPorts),
          ip \in SeqsUpTo(FilterInstChoices, MaxFilterInstPorts) :
          /\ cells = <<FilterCellOf(bs, ip), FilterLeaf>>
          /\ calls = IF ip = <<>> THEN {} ELSE {<<1, 2>>}
    /\ port_types \in CheckTypeChoices
    /\ layers \in LayerChoices
    /\ netlist = <<>>
    /\ todo = <<>>
    /\ npc = "check"
    /\ nerr = [kind |-> "none", what |-> "none"]
    /\ db = <<>>
    /\ PortsIdle
    /\ backbone = <<>>
    /\ pc = "idle"
    /\ idx = 0
    /\ start_offset = 0
    /\ effective_radius = 0
    /\ bends = <<>>
    /\ factory_calls = <<>>
    /\ insts = <<>>
    /\ c_insts = <<>>
    /\ c_before = <<>>
    /\ cursor = StartPort
    /\ err = NoError
    /\ BundleIdle
    /\ LockIdle
    /\ RenameIdle

NextFilter == CheckCall

SpecFilter == InitFilter /\ [][NextFilter]_vars

\* ------------------------------------------------------------------------
\* Part IV: route_bundle(): the waypoints of one lane
\* ------------------------------------------------------------------------
\* most lanes of a bundle, most waypoints of a lane before reconciliation
MaxLanes == 2

MaxLanePts == 3

\* p_radius = kdb.DPoint(200, 0)
PRadius == 200

\* a transformation DCplxTrans(1, a, False, x, y) with a a multiple of 90
BTrans(a, x, y) == [a |-> a % 360, x |-> x, y |-> y]

\* trans * kdb.DPoint(vx, vy)
BApply(t, vx, vy) ==
    IF t.a = 0 THEN Point(t.x + vx, t.y + vy)
    ELSE IF t.a = 90 THEN Point(t.x - vy, t.y + vx)
    ELSE IF t.a = 180 THEN Point(t.x - vx, t.y - vy)
    ELSE Point(t.x + vy, t.y - vx)

\* (trans.inverted() * pt).x
BLocalX(t, pt) ==
    IF t.a = 0 THEN pt.x - t.x
    ELSE IF t.a = 90 THEN pt.y - t.y
    ELSE IF t.a = 180 THEN t.x - pt.x
    ELSE t.y - pt.y

\* trans.disp.to_p()
BPos(t) == Point(t.x, t.y)

\* trans_bundle_start: at pts[0], pointing from pts[1] to pts[0]
trans_bundle_start(pts) ==
    BTrans(Angle(VSub(pts[1], pts[2])), pts[1].x, pts[1].y)

\* trans_bundle_end: at pts[-1], pointing from pts[-2] to pts[-1]
trans_bundle_end(pts) ==
    BTrans(Angle(VSub(pts[Len(pts)], pts[Len(pts) - 1])),
           pts[Len(pts)].x, pts[Len(pts)].y)

\* `xing is not None and vector_xing.x > 0 and vector_xing_bundle.x > 0`
\* for the edges of a port and of an end of the lane
CrossAheadMut(pt, tb) == CutPoint(pt, tb).ok

CrossAhead(pt, tb) ==
    /\ CutPoint(pt, tb).ok
    /\ BLocalX(pt, CutPoint(pt, tb)) > 0
    /\ BLocalX(tb, CutPoint(pt, tb)) > 0

\* the cut point as a kdb.DPoint
Xing(pt, tb) == Point(CutPoint(pt, tb).x, CutPoint(pt, tb).y)

\* the dog-leg that keeps the first waypoint of the lane
StartPointsMut(ps, tb, pts) ==
    IF CrossAhead(ps, tb)
    THEN <<BPos(ps), Xing(ps, tb)>> \o pts
    ELSE <<BPos(ps), BApply(ps, PRadius, 0), BApply(tb, PRadius, 0)>> \o pts

\* pts[:0] = [port position, xing_start], or
\* pts[:1] = [port position, ps * p_radius, trans_bundle_start * p_radius]
StartPoints(ps, tb, pts) ==
    IF CrossAhead(ps, tb)
    THEN <<BPos(ps), Xing(ps, tb)>> \o pts
    ELSE <<BPos(ps), BApply(ps, PRadius, 0), BApply(tb, PRadius, 0)>>
         \o Tail(pts)

\* pts.extend([xing_end, port position]), or
\* pts[-1:] = [trans_bundle_end * p_radius, pe * p_radius, port position]
EndPoints(pe, tb, pts) ==
    IF CrossAhead(pe, tb)
    THEN pts \o <<Xing(pe, tb), BPos(pe)>>
    ELSE SubSeq(pts, 1, Len(pts) - 1)
         \o <<BApply(tb, PRadius, 0), BApply(pe, PRadius, 0), BPos(pe)>>

\* the waypoints handed to route() for the lane pts between ps and pe; the
\* transformations of both ends are taken before pts is changed
Reconcile(ps, pe, pts) ==
    EndPoints(pe, trans_bundle_end(pts),
              StartPoints(ps, trans_bundle_start(pts), pts))

\* the lanes backbone2bundle() hands over: 2 .. MaxLanePts waypoints on the
\* corners of a square, every segment along one of the axes
LanePoints == {Point(x, y) : x \in {0, 10}, y \in {0, 10}}

RECURSIVE LanesOfLen(_)
LanesOfLen(n) ==
    IF n = 1 THEN {<<p>> : p \in LanePoints}
    ELSE UNION {{Append(b, p) : p \in {q \in LanePoints : AxisAligned(b[n - 1], q)}} :
                  b \in LanesOfLen(n - 1)}

LaneChoices == UNION {LanesOfLen(n) : n \in 2 .. MaxLanePts}

\* the transformations of the start ports and of the end ports
StartPortChoices == {BTrans(a, -10, 5) : a \in {0, 90, 180, 270}}

EndPortChoices == {BTrans(a, 30, 5) : a \in {0, 90, 180, 270}}

\* the call route_bundle(...) before the first lane
InitBundle ==
    /\ BundleIdle
    /\ layers = {}
    /\ LockIdle
    /\ RenameIdle
    /\ NetIdle
    /\ PortsIdle
    /\ backbone = <<>>
    /\ pc = "idle"
    /\ idx = 0
    /\ start_offset = 0
    /\ effective_radius = 0
    /\ bends = <<>>
    /\ factory_calls = <<>>
    /\ insts = <<>>
    /\ c_insts = <<>>
    /\ c_before = <<>>
    /\ cursor = StartPort
    /\ err = NoError

\* one iteration of `for ps, pe, pts in zip(start_ports, end_ports, pts_list)`
BundleLane ==
    /\ bundle.n < MaxLanes
    /\ \E ps \in StartPortChoices, pe \in EndPortChoices, pts \in LaneChoices :
          bundle' = [n |-> bundle.n + 1, ps |-> ps, pe |-> pe, pts |-> pts,
                     out |-> Reconcile(ps, pe, pts)]
    /\ UNCHANGED <<layers, kc, ren>>
    /\ UNCHANGED <<routeVars, portVars, netVars>>

NextBundle == BundleLane

SpecBundle == InitBundle /\ [][NextBundle]_vars

\* ------------------------------------------------------------------------
\* Part V: lock() and the operations that change a cell
\* ------------------------------------------------------------------------
\* most ports, instances and virtual instances of the cell
MaxLockItems == 2

CellFlavours == {"KCell", "DKCell", "VKCell"}

CellNames == {"a", "b"}

\* a port of the cell: its name and its transformation
LPort(name, t) == [name |-> name, t |-> t]

LPortNames == 1 .. MaxLockItems

\* what the claims about lock() read of a cell
Snap(k) ==
    [name |-> k.name, ports |-> k.ports, insts |-> k.insts, vinsts |-> k.vinsts]

\* `if self.locked: raise LockedError(self)`
RaiseLocked(op) ==
    kc' = [kc EXCEPT !.op = op, !.err = "LockedError", !.was = Snap(kc),
                     !.wasLocked = kc.locked]

\* the operation op ran to its end and left the cell as k
Ran(op, k) ==
    kc' = [k EXCEPT !.op = op, !.err = "", !.was = Snap(kc),
                    !.wasLocked = kc.locked]

\* the layout database refused the operation with an error of its own
RaiseKdb(op) ==
    kc' = [kc EXCEPT !.op = op, !.err = "RuntimeError", !.was = Snap(kc),
                     !.wasLocked = kc.locked]

IsVirtual == kc.kind = "VKCell"

\* VKCell.insts is the list of virtual instances of the cell
WithVinsts(k, n) ==
    IF k.kind = "VKCell" THEN [k EXCEPT !.vinsts = n, !.insts = n]
    ELSE [k EXCEPT !.vinsts = n]

LockOthersUnchanged ==
    /\ UNCHANGED <<layers, bundle, ren>>
    /\ UNCHANGED <<routeVars, portVars, netVars>>

\* a cell of one of the three flavours, not locked, without ports
InitLock ==
    /\ \E kind \in CellFlavours, name \in CellNames :
          kc = [kind |-> kind, locked |-> FALSE, name |-> name, ports |-> <<>>,
                insts |-> 0, vinsts |-> 0, op |-> "new", err |-> "",
                was |-> [name |-> name, ports |-> <<>>, insts |-> 0, vinsts |-> 0],
                wasLocked |-> FALSE]
    /\ layers = {}
    /\ BundleIdle
    /\ RenameIdle
    /\ NetIdle
    /\ PortsIdle
    /\ backbone = <<>>
    /\ pc = "idle"
    /\ idx = 0
    /\ start_offset = 0
    /\ effective_radius = 0
    /\ bends = <<>>
    /\ factory_calls = <<>>
    /\ insts = <<>>
    /\ c_insts = <<>>
    /\ c_before = <<>>
    /\ cursor = StartPort
    /\ err = NoError

\* lock()
Lock ==
    /\ ~kc.locked
    /\ Ran("lock", [kc EXCEPT !.locked = TRUE])
    /\ LockOthersUnchanged

\* create_port(name=...)
CreatePort ==
    /\ \E n \in LPortNames :
          IF kc.locked THEN RaiseLocked("create_port")
          ELSE /\ Len(kc.ports) < MaxLockItems
               /\ Ran("create_port", [kc EXCEPT !.ports = Append(@, LPort(n, 0))])
    /\ LockOthersUnchanged

\* add_port(port=...)
AddPort ==
    /\ \E n \in LPortNames, t \in {0, 1} :
          IF kc.locked THEN RaiseLocked("add_port")
          ELSE /\ Len(kc.ports) < MaxLockItems
               /\ Ran("add_port", [kc EXCEPT !.ports = Append(@, LPort(n, t))])
    /\ LockOthersUnchanged

\* add_ports(ports=...) with two ports
AddPorts ==
    /\ \E t \in {0, 1} :
          IF kc.locked THEN RaiseLocked("add_ports")
          ELSE /\ Len(kc.ports) + 2 <= MaxLockItems
               /\ Ran("add_ports",
                      [kc EXCEPT !.ports = @ \o <<LPort(1, t), LPort(2, t)>>])
    /\ LockOthersUnchanged

\* ports = new_ports
SetPorts ==
    /\ \E n \in LPortNames :
          IF kc.locked THEN RaiseLocked("ports")
          ELSE Ran("ports", [kc EXCEPT !.ports = <<LPort(n, 1)>>])
    /\ LockOthersUnchanged

\* name = value
SetName ==
    /\ \E value \in CellNames :
          IF kc.locked THEN RaiseLocked("name")
          ELSE Ran("name", [kc EXCEPT !.name = value])
    /\ LockOthersUnchanged

\* auto_rename_ports(rename_func) with a function that numbers the ports
\* from 11 in the order of the list
AutoRenamePorts ==
    /\ IF kc.locked THEN RaiseLocked("auto_rename_ports")
       ELSE Ran("auto_rename_ports",
                [kc EXCEPT !.ports = [i \in 1 .. Len(@) |-> LPort(10 + i, @[i].t)]])
    /\ LockOthersUnchanged

\* flatten(): ProtoTKCell.flatten puts the virtual instances into the cell,
\* empties their list and flattens the instances; VKCell.flatten keeps its
\* list
FlattenCell ==
    /\ IF kc.locked THEN RaiseLocked("flatten")
       ELSE IF IsVirtual THEN Ran("flatten", kc)
       ELSE Ran("flatten", [kc EXCEPT !.insts = 0, !.vinsts = 0])
    /\ LockOthersUnchanged

\* insert(inst) of ProtoTKCell
InsertInst ==
    /\ ~IsVirtual
    /\ IF kc.locked THEN RaiseLocked("insert")
       ELSE /\ kc.insts < MaxLockItems
            /\ Ran("insert", [kc EXCEPT !.insts = @ + 1])
    /\ LockOthersUnchanged

\* transform(trans, transform_ports=...) of ProtoTKCell: no test of the
\* lock; the layout database transforms the cell or refuses to, and then
\* the transformation of every port is replaced
TransformCell ==
    /\ ~IsVirtual
    /\ \E transform_ports \in BOOLEAN :
          \/ /\ kc.locked
             /\ RaiseKdb("transform")
          \/ Ran("transform",
                 IF transform_ports
                 THEN [kc EXCEPT !.ports = [i \in 1 .. Len(@) |->
                                              LPort(@[i].name, 1 - @[i].t)]]
                 ELSE kc)
    /\ LockOthersUnchanged

\* create_inst(cell): VKCell tests the lock and appends to its list;
\* KCell and DKCell hand the instance to the layout database without a test
CreateInst ==
    /\ IF IsVirtual
       THEN IF kc.locked THEN RaiseLocked("create_inst")
            ELSE /\ kc.vinsts < MaxLockItems
                 /\ Ran("create_inst", WithVinsts(kc, kc.vinsts + 1))
       ELSE \/ /\ kc.locked
               /\ RaiseKdb("create_inst")
            \/ /\ kc.insts < MaxLockItems
               /\ Ran("create_inst", [kc EXCEPT !.insts = @ + 1])
    /\ LockOthersUnchanged

\* create_vinst(cell): VKCell tests the lock, ProtoKCell.create_vinst of
\* KCell and DKCell appends without a test
CreateVinst ==
    /\ IF IsVirtual /\ kc.locked THEN RaiseLocked("create_vinst")
       ELSE /\ kc.vinsts < MaxLockItems
            /\ Ran("create_vinst", WithVinsts(kc, kc.vinsts + 1))
    /\ LockOthersUnchanged

NextLock ==
    \/ Lock
    \/ CreatePort
    \/ AddPort
    \/ AddPorts
    \/ SetPorts
    \/ SetName
    \/ AutoRenamePorts
    \/ FlattenCell
    \/ InsertInst
    \/ TransformCell
    \/ CreateInst
    \/ CreateVinst

SpecLock == InitLock /\ [][NextLock]_vars

\* ------------------------------------------------------------------------
\* Part VI: rename_clockwise()
\* ------------------------------------------------------------------------
\* most ports handed to rename_clockwise
MaxRenPorts == 2

\* a port name: prefix and number, or no name at all
PName(prefix, n) == [prefix |-> prefix, n |-> n]

NoName == PName("", 0)

\* a port as rename_clockwise reads it: trans.angle in 0 .. 3, trans.disp,
\* layer, port type and name
RPort(angle, x, y, layer, ptype, name) ==
    [angle |-> angle, x |-> x, y |-> y, layer |-> layer, ptype |-> ptype,
     name |-> name]

\* the ports of the model: on three positions, facing any side, with three
\* combinations of layer, type and name
RenPortChoices ==
    {RPort(a, pos[1], pos[2], m[1], m[2], m[3]) :
        a \in 0 .. 3,
        pos \in {<<0, 0>>, <<1, 0>>, <<0, 1>>},
        m \in {<<1, "optical", PName("o", 7)>>,
               <<2, "optical", PName("e", 7)>>,
               <<1, "electrical", NoName>>}}

\* layer None is 0, port_type and regex None are "None"; the regex of the model
\* matches the names that start with "o"
RenFilterChoices ==
    {[layer |-> 0, port_type |-> "None", regex |-> "None"],
     [layer |-> 1, port_type |-> "None", regex |-> "None"],
     [layer |-> 0, port_type |-> "optical", regex |-> "None"],
     [layer |-> 0, port_type |-> "None", regex |-> "o"],
     [layer |-> 1, port_type |-> "optical", regex |-> "o"]}

\* prefix and start of the call
RenNameChoices == {<<"o", 1>>, <<"e", 5>>}

\* filter_layer_pt_reg(ports, layer, port_type, regex), on one port
filter_layer_pt_reg(port, f) ==
    /\ f.layer # 0 => port.layer = f.layer
    /\ f.port_type # "None" => port.ptype = f.port_type
    /\ f.regex # "None" => (port.name # NoName /\ port.name.prefix = f.regex)

\* port.angle: trans.angle of a Port, degrees of a DPort
PortAngle(flavour, port) ==
    IF flavour = "Port" THEN port.angle ELSE 90 * port.angle

\* a sort key whose first direction is never reversed
sort_keyMut(flavour, port) ==
    LET angle == CASE port.angle = 2 -> 0
                   [] port.angle = 1 -> 1
                   [] port.angle = 0 -> 2
                   [] OTHER -> 3
        dir_2 == IF PortAngle(flavour, port) < 2 THEN -1 ELSE 1
    IN  <<angle,
          IF angle % 2 = 1 THEN port.x ELSE port.y,
          dir_2 * (IF angle % 2 = 1 THEN port.y ELSE port.x)>>

\* sort_key(port) of rename_clockwise
sort_key(flavour, port) ==
    LET angle == CASE port.angle = 2 -> 0
                   [] port.angle = 1 -> 1
                   [] port.angle = 0 -> 2
                   [] OTHER -> 3
        dir_1 == IF angle < 2 THEN 1 ELSE -1
        dir_2 == IF PortAngle(flavour, port) < 2 THEN -1 ELSE 1
    IN  <<angle,
          dir_1 * (IF angle % 2 = 1 THEN port.x ELSE port.y),
          dir_2 * (IF angle % 2 = 1 THEN port.y ELSE port.x)>>

\* the order of Python on tuples of three integers
TupleLess(a, b) ==
    \/ a[1] < b[1]
    \/ a[1] = b[1] /\ a[2] < b[2]
    \/ a[1] = b[1] /\ a[2] = b[2] /\ a[3] < b[3]

\* the place, from 0, of element i in sorted(ps, key=sort_key) for the
\* indices sel of ps: sorted() is stable
SortedPlace(flavour, ps, sel, i) ==
    Cardinality({j \in sel :
        \/ TupleLess(sort_key(flavour, ps[j]), sort_key(flavour, ps[i]))
        \/ /\ sort_key(flavour, ps[j]) = sort_key(flavour, ps[i])
           /\ j < i})

\* the ports after rename_clockwise(ps, layer, port_type, regex, prefix, start)
rename_clockwise(flavour, ps, f, prefix, start) ==
    LET sel == {i \in 1 .. Len(ps) : filter_layer_pt_reg(ps[i], f)}
    IN  [i \in 1 .. Len(ps) |->
            IF i \in sel
            THEN [ps[i] EXCEPT !.name =
                     PName(prefix, start + SortedPlace(flavour, ps, sel, i))]
            ELSE ps[i]]

RenOthersUnchanged ==
    /\ UNCHANGED <<layers, bundle, kc>>
    /\ UNCHANGED <<routeVars, portVars, netVars>>

\* a cell of Ports or of DPorts without ports
InitRename ==
    /\ \E flavour \in {"Port", "DPort"} :
          ren = [flavour |-> flavour, ports |-> <<>>, done |-> FALSE,
                 filter |-> [layer |-> 0, port_type |-> "None",
                             regex |-> "None"],
                 prefix |-> "o", start |-> 1, out |-> <<>>]
    /\ layers = {}
    /\ BundleIdle
    /\ LockIdle
    /\ NetIdle
    /\ PortsIdle
    /\ backbone = <<>>
    /\ pc = "idle"
    /\ idx = 0
    /\ start_offset = 0
    /\ effective_radius = 0
    /\ bends = <<>>
    /\ factory_calls = <<>>
    /\ insts = <<>>
    /\ c_insts = <<>>
    /\ c_before = <<>>
    /\ cursor = StartPort
    /\ err = NoError

\* the cell gets one more port
RenAddPort ==
    /\ ~ren.done
    /\ Len(ren.ports) < MaxRenPorts
    /\ \E port \in RenPortChoices :
          ren' = [ren EXCEPT !.ports = Append(@, port)]
    /\ RenOthersUnchanged

\* rename_clockwise(ports, layer, port_type, regex, prefix, start)
RenameClockwise ==
    /\ ~ren.done
    /\ \E f \in RenFilterChoices, ps \in RenNameChoices :
          ren' = [ren EXCEPT !.done = TRUE, !.filter = f, !.prefix = ps[1],
                             !.start = ps[2],
                             !.out = rename_clockwise(ren.flavour, ren.ports, f,
                                                      ps[1], ps[2])]
    /\ RenOthersUnchanged

NextRename ==
    \/ RenAddPort
    \/ RenameClockwise

SpecRename == InitRename /\ [][NextRename]_vars

\* ------------------------------------------------------------------------
\* Properties of route()
\* ------------------------------------------------------------------------
\* kind and size of every element of a list of instances, in order
Shape(is) == [k \in DOMAIN is |-> <<is[k].kind, is[k].size>>]

\* the radius the bend at waypoint i of b takes from each adjacent segment
RadiusAt(b, i) ==
    IF i = 1 \/ i = Len(b) THEN 0
    ELSE IF TurnAt(b, i) = 0 THEN 0
    ELSE EffectiveRadius(BendFactory(Abs(TurnAt(b, i))))

\* the space left on the segment that ends at waypoint i
SpaceLeft(b, i) == SegLen(b, i) - RadiusAt(b, i - 1) - RadiusAt(b, i)

\* the turn at waypoint i has a bend with a cut point
Bendable(b, i) ==
    TurnAt(b, i) = 0 \/ HasCutPoint(BendFactory(Abs(TurnAt(b, i))))

\* C1: whenever the space left on a segment is negative, at an interior
\* waypoint with or without a turn or on the closing segment, route() fails
\* with the insufficient-space error that names the two waypoints of it
C1_NegativeSpaceFails ==
    [][/\ (pc = "loop" /\ Bendable(backbone, idx)
             /\ SegLen(backbone, idx) - start_offset
                  - RadiusAt(backbone, idx) < 0)
          => (pc' = "failed" /\ err'.what = "not_enough_space"
                /\ err'.pts = <<backbone[idx - 1], backbone[idx]>>)
       /\ (pc = "close"
             /\ SegLen(backbone, idx) - effective_radius < 0)
          => (pc' = "failed" /\ err'.what = "not_enough_space"
                /\ err'.pts = <<backbone[idx - 1], backbone[idx]>>)]_vars

\* C2: a backbone of fewer than 3 waypoints is rejected with an error and
\* the instance list of the target cell is what it was before the call
C2_TooFewPointsRejected ==
    (Len(backbone) < 3 /\ pc # "call")
        => (pc = "failed" /\ err.what = "less_than_3_points"
              /\ c_insts = c_before /\ insts = <<>>)

C2_Witness ==
    pc = "failed" /\ Len(backbone) = 2 /\ c_insts # <<>> /\ c_insts = c_before

\* the elements the claim expects for the segments i .. Len(b) of b
RECURSIVE ExpectedFrom(_, _)
ExpectedFrom(b, i) ==
    IF i > Len(b) THEN <<>>
    ELSE (IF SpaceLeft(b, i) > 0 THEN <<<<"straight", SpaceLeft(b, i)>>>>
          ELSE <<>>)
         \o (IF i < Len(b) /\ TurnAt(b, i) # 0
             THEN <<<<"bend", Abs(TurnAt(b, i))>>>> ELSE <<>>)
         \o ExpectedFrom(b, i + 1)

\* C3: a successful route holds, in backbone order, for every segment a
\* straight of length distance - r(i-1) - r(i) iff that is > 0, followed by
\* one bend iff the waypoint at its end turns; [(0,0),(10,0),(10,10)] with
\* a bend of radius 5 gives straight 5, bend 90, straight 5
C3_StraightsAndBends ==
    pc = "done" =>
        /\ Shape(insts) = ExpectedFrom(backbone, 2)
        /\ c_insts = c_before \o insts
        /\ backbone = <<Point(0, 0), Point(10, 0), Point(10, 10)>>
             => Shape(insts) = <<<<"straight", 5>>, <<"bend", 90>>,
                                 <<"straight", 5>>>>

C3_Witness ==
    /\ pc = "done"
    /\ backbone = <<Point(0, 0), Point(10, 0), Point(10, 10)>>
    /\ Len(insts) = 3

\* C4 as stated: the straight runs on both sides of a waypoint without a
\* turn are one element, so a finished route never holds two straights in
\* a row
C4_StraightRunsMerged ==
    pc = "done" =>
        \A k \in 1 .. Len(insts) - 1 :
            ~(insts[k].kind = "straight" /\ insts[k + 1].kind = "straight")

\* C4 amended: at a waypoint without a turn no bend is placed and the
\* effective radius is 0, and the segment that ends there gets a straight
\* of its own, of length distance - start_offset, iff that length is > 0
C4_ZeroTurnOwnStraight ==
    [][(pc = "loop" /\ TurnAt(backbone, idx) = 0) =>
          LET l == SegLen(backbone, idx) - start_offset
          IN  /\ pc' # "failed"
              /\ start_offset' = 0
              /\ Shape(insts') = Shape(insts)
                    \o (IF l > 0 THEN <<<<"straight", l>>>> ELSE <<>>)]_vars

C4_Witness ==
    /\ pc = "done"
    /\ \E i \in 2 .. Len(backbone) - 1 : TurnAt(backbone, i) = 0
    /\ \E k \in 1 .. Len(insts) - 1 :
          insts[k].kind = "straight" /\ insts[k + 1].kind = "straight"

\* C5: within one call bend_factory is invoked at most once per absolute
\* turn angle
C5_OneBendPerAbsAngle ==
    \A i, j \in DOMAIN factory_calls :
        factory_calls[i] = factory_calls[j] => i = j

\* ------------------------------------------------------------------------
\* Properties of the ports
\* ------------------------------------------------------------------------
\* the port stores exactly one of the two transformations
ExactlyOne(b) == (b.trans.id # 0) # (b.dcplx.id # 0)

\* C6: after construction and after every setter call a port stores
\* exactly one of the Simple and the Complex transformation
C6_OneRepresentation ==
    \A k \in PortNames : ports[k].alive => ExactlyOne(ports[k])

\* C7: once `port.dcplx_trans = v` was executed, whatever the port stored
\* before, reading dcplx_trans returns v and reading trans returns the grid
\* conversion of v
C7_DcplxTransReadBack ==
    last.op = "set_dcplx_trans" =>
        /\ GetDcplx(ports[last.k]) = last.arg
        /\ GetTrans(ports[last.k]) = C2S(last.arg)

\* the stored Complex transformation c is not exactly a Simple one
Lossy(c) == c.angle % 90 # 0 \/ ~OnGrid(c)

\* C8 as stated: reading trans while only a Complex transformation that is
\* not exactly a Simple one is stored is rejected
C8_NoImplicitNarrowing ==
    (/\ last.op = "get_trans"
     /\ ports[last.k].trans.id = 0
     /\ Lossy(ports[last.k].dcplx.v)) => last.res.exc # ""

\* s is c with the angle rounded down to a quadrant and the displacement
\* rounded to the nearest grid point, a tie away from zero
RoundedTo(s, c) ==
    /\ s.rot \in 0 .. 3
    /\ s.rot * 90 <= c.angle /\ c.angle < s.rot * 90 + 90
    /\ s.mirror = c.mirror
    /\ \A ax \in {"x", "y"} :
          LET e == Abs(s[ax] * Sub - c[ax])
          IN  /\ 2 * e <= Sub
              /\ 2 * e = Sub => Abs(s[ax] * Sub) > Abs(c[ax])

\* C8: reading trans never raises and never changes the port; it returns
\* the stored Simple transformation if there is one, else the stored Complex
\* one with the angle rounded down to a quadrant and the displacement
\* rounded to the grid. `Port.angle = a` replaces what is stored by that
\* Simple transformation with its quadrant set to a.
C8_ImplicitRounding ==
    [][/\ last'.op = "get_trans" =>
            /\ ports' = ports
            /\ last'.res.exc = ""
            /\ IF ports[last'.k].trans.id # 0
               THEN last'.res.v = ports[last'.k].trans.v
               ELSE RoundedTo(last'.res.v, ports[last'.k].dcplx.v)
       /\ (last'.op = "set_angle" /\ ports[last'.k].flavour = "Port") =>
            LET b == ports[last'.k]
                n == ports'[last'.k]
            IN  /\ n.dcplx.id = 0 /\ n.trans.id # 0
                /\ n.trans.v.rot = last'.arg
                /\ IF b.trans.id # 0
                   THEN n.trans.v = [b.trans.v EXCEPT !.rot = last'.arg]
                   ELSE RoundedTo([n.trans.v EXCEPT !.rot = b.dcplx.v.angle \div 90],
                                  b.dcplx.v)
      ]_vars

\* C8 witness: trans was read from a port that stores only a Complex
\* transformation at 45 degrees off the grid lines, and a Simple one came back
C8_Witness ==
    /\ last.op = "get_trans"
    /\ ports[last.k].trans.id = 0
    /\ ports[last.k].dcplx.v.angle = 45
    /\ last.res.exc = ""
    /\ last.res.v.rot = 0

\* the transformation objects of p and q are distinct
NoSharedObject ==
    {ports["p"].trans.id, ports["p"].dcplx.id}
        \cap {ports["q"].trans.id, ports["q"].dcplx.id} \subseteq {0}

\* C9: q = p.copy(T1, T2) has the transformation T1 * p.trans * T2 when p
\* stores a Simple one and T1, T2 are Simple, else T1 * p.dcplx_trans * T2
\* stored as Complex; name, cross-section, port type and info are p's; p is
\* unchanged by the copy and by every later operation on q
C9_CopyTransformed ==
    [][/\ last'.k = "q" => ports'["p"] = ports["p"]
       /\ last'.op = "copy" =>
            LET p  == ports["p"]
                q  == ports'["q"]
                t1 == last'.arg[1]
                t2 == last'.arg[2]
            IN  /\ q.alive /\ q.meta = p.meta /\ q.flavour = p.flavour
                /\ IF p.trans.id # 0 /\ t1.kind = "S" /\ t2.kind = "S"
                   THEN GetTrans(q) = SMul(t1.t, SMul(p.trans.v, t2.t))
                   ELSE /\ q.trans.id = 0 /\ q.dcplx.id # 0
                        /\ q.dcplx.v = CMul(CMul(AsComplex(t1), GetDcplx(p)),
                                            AsComplex(t2))
                /\ NoSharedObject'
      ]_vars

\* C9 witness: a copy by two Simple transformations that do not commute
\* with the one p stores
C9_Witness ==
    /\ last.op = "copy"
    /\ ports["p"].trans.id # 0
    /\ last.arg[1].kind = "S" /\ last.arg[2].kind = "S"
    /\ last.arg[1].t.rot = 1 /\ last.arg[2].t.rot = 0
    /\ ports["p"].trans.v.x # 0
    /\ ports["q"].trans.v # ports["p"].trans.v

\* C10: two ports of the same flavour compare equal iff their underlying
\* states are equal, and every port equals itself
C10_StructuralEquality ==
    last.op = "eq" =>
        /\ ports["p"].flavour = ports["q"].flavour =>
              (last.res.v[1] <=> BaseEq(ports["p"], ports["q"]))
        /\ last.res.v[3]

\* the operations that assign an angle in degrees
DegreeSetters == {"set_orientation", "set_dangle"}

\* C11: `port.orientation = v` (or dangle, DPort.angle) on a port that
\* stores one transformation is read back by the orientation getter and
\* leaves displacement and mirror flag as they were; the port then stores a
\* Simple transformation with quadrant v / 90 if its transformation was not
\* complex and v is a multiple of 90, else a Complex one with angle v
C11_OrientationReadBack ==
    [][(/\ \/ last'.op \in DegreeSetters
           \/ last'.op = "set_angle" /\ ports[last'.k].flavour = "DPort"
        /\ ExactlyOne(ports[last'.k])) =>
            LET b == GetDcplx(ports[last'.k])
                n == ports'[last'.k]
                v == last'.arg
            IN  /\ GetDcplx(n).angle = v
                /\ GetDcplx(n).x = b.x /\ GetDcplx(n).y = b.y
                /\ GetDcplx(n).mirror = b.mirror
                /\ IF ~IsComplex(b) /\ v \in RightAngles
                   THEN n.trans.id # 0 /\ n.trans.v.rot = v \div 90
                   ELSE n.dcplx.id # 0 /\ n.dcplx.v.angle = v
      ]_vars

\* C12: on a port that stores the Simple transformation t, assigning the
\* value read from dcplx_trans back to dcplx_trans leaves the port storing
\* exactly t as its Simple transformation
C12_RoundTrip ==
    [][(last'.op = "set_back" /\ ports[last'.k].trans.id # 0) =>
            /\ ports'[last'.k].trans.id # 0
            /\ ports'[last'.k].trans.v = ports[last'.k].trans.v
      ]_vars

\* ------------------------------------------------------------------------
\* Properties of circuit()
\* ------------------------------------------------------------------------
\* the call of circuit() on cells[1] has returned or raised
Finished == npc \in {"done", "raised"}

\* the extracted boundary ports and instances of cells[1] at the bucket b
BPortsAt(b) ==
    {i \in 1 .. Len(cells[1].ports) :
        cells[1].ports[i].port_type \in port_types
        /\ Bucket(cells[1].ports[i]) = b}

IPortsAt(b) ==
    {i \in 1 .. Len(cells[1].insts) :
        cells[1].insts[i].port.port_type \in port_types
        /\ Bucket(cells[1].insts[i].port) = b}

\* the buckets that hold an instance port
IBuckets == {b \in {Bucket(cells[1].insts[i].port) :
                       i \in 1 .. Len(cells[1].insts)} : IPortsAt(b) # {}}

\* two boundary ports that are extracted carry the same name
NameCollision ==
    \E i, j \in 1 .. Len(cells[1].ports) :
        /\ i # j
        /\ cells[1].ports[i].port_type \in port_types
        /\ cells[1].ports[j].port_type \in port_types
        /\ cells[1].ports[i].name # ""
        /\ cells[1].ports[i].name = cells[1].ports[j].name

\* width and port type of two ports agree
SameKind(p1, p2) == p1.width = p2.width /\ p1.port_type = p2.port_type

\* two ports at one point face each other / point the same way
Facing(p1, p2) == (p1.trans.rot - p2.trans.rot) % 4 = 2

SameWay(p1, p2) == p1.trans.rot = p2.trans.rot

\* a bucket of two instance ports, or of one instance port and one boundary
\* port, whose ports differ in width, orientation or port type
Mismatch ==
    \E b \in IBuckets :
        \/ /\ BPortsAt(b) = {}
           /\ \E i, j \in IPortsAt(b) :
                 /\ i # j /\ IPortsAt(b) = {i, j}
                 /\ ~(/\ Facing(cells[1].insts[i].port, cells[1].insts[j].port)
                      /\ SameKind(cells[1].insts[i].port, cells[1].insts[j].port))
        \/ \E k \in BPortsAt(b), i \in IPortsAt(b) :
              /\ BPortsAt(b) = {k} /\ IPortsAt(b) = {i}
              /\ ~(/\ SameWay(cells[1].ports[k], cells[1].insts[i].port)
                   /\ SameKind(cells[1].ports[k], cells[1].insts[i].port))

\* more than two instance ports at a point, more than one at a boundary
\* port, or colliding boundary port names
TopologyError ==
    \/ NameCollision
    \/ \E b \in IBuckets :
          \/ BPortsAt(b) = {} /\ Cardinality(IPortsAt(b)) > 2
          \/ BPortsAt(b) # {} /\ Cardinality(IPortsAt(b)) > 1

\* an instance port at a point with several boundary ports
StackedPin ==
    \E b \in IBuckets : Cardinality(BPortsAt(b)) > 1

\* the circuit of cells[1], once added
TheCircuit == netlist[Len(netlist)]

\* the nets instance i is connected to
NetsOf(i) == {cn.net : cn \in {x \in TheCircuit.conns : x.inst = i}}

\* C13 as stated: a mismatch never aborts the extraction, which fails only
\* on a topology error
C13_MismatchNeverAborts ==
    npc = "raised" => (TopologyError \/ StackedPin)

\* C13: a width, orientation or port-type mismatch in a bucket of two
\* instance ports, or of one instance port and one boundary port, makes
\* circuit() raise: no circuit is added; without a topology error the
\* exception is the AssertionError of port_check
C13_MismatchAborts ==
    (Finished /\ Mismatch) =>
        /\ npc = "raised"
        /\ Len(netlist) = 1
        /\ ~(TopologyError \/ StackedPin) =>
              /\ nerr.kind = "AssertionError"
              /\ nerr.what \in {"opposite", "overlapping", "width", "port_type"}

\* C13 witness: two instance ports that face each other with different
\* widths made the extraction raise
C13_Witness ==
    /\ npc = "raised"
    /\ nerr.what = "width"
    /\ \E b \in IBuckets : BPortsAt(b) = {} /\ Cardinality(IPortsAt(b)) = 2

\* C14: in a bucket of instance ports without boundary port, more than two
\* ports make circuit() raise, two ports are both connected to one net that
\* connects nothing else, one port is connected to no net; a cell without
\* mismatch, topology error or stacked pin is extracted
C14_InstanceBuckets ==
    Finished =>
        /\ \A b \in IBuckets :
              BPortsAt(b) = {} =>
                 /\ Cardinality(IPortsAt(b)) > 2 => npc = "raised"
                 /\ (npc = "done" /\ Cardinality(IPortsAt(b)) = 2) =>
                       \E n \in TheCircuit.nets :
                          /\ \A i \in IPortsAt(b) : NetsOf(i) = {n}
                          /\ \A i \in 1 .. Len(cells[1].insts) :
                                n \in NetsOf(i) => i \in IPortsAt(b)
                 /\ (npc = "done" /\ Cardinality(IPortsAt(b)) = 1) =>
                       \A i \in IPortsAt(b) : NetsOf(i) = {}
        /\ ~(Mismatch \/ TopologyError \/ StackedPin) => npc = "done"

\* C14 witness: a cell was extracted that has a bucket of two instance
\* ports and a bucket of one, both without boundary port
C14_Witness ==
    /\ npc = "done"
    /\ \E b1, b2 \in IBuckets :
          /\ BPortsAt(b1) = {} /\ Cardinality(IPortsAt(b1)) = 2
          /\ BPortsAt(b2) = {} /\ Cardinality(IPortsAt(b2)) = 1

\* C15 as stated: at a point with one or several boundary ports exactly one
\* instance port is connected to the net of the boundary ports and the
\* extraction succeeds; more than one instance port is an error
C15_OneInstancePortPerPin ==
    (Finished /\ ~NameCollision /\ ~Mismatch
     /\ \A b \in IBuckets :
           /\ BPortsAt(b) = {} => Cardinality(IPortsAt(b)) <= 2
           /\ \A k \in BPortsAt(b), i \in IPortsAt(b) :
                 /\ SameWay(cells[1].ports[k], cells[1].insts[i].port)
                 /\ SameKind(cells[1].ports[k], cells[1].insts[i].port)) =>
        \A b \in IBuckets :
           BPortsAt(b) # {} =>
              /\ Cardinality(IPortsAt(b)) = 1 =>
                    /\ npc = "done"
                    /\ \A i \in IPortsAt(b) :
                          NetsOf(i) = {[kind |-> "cell", b |-> b]}
              /\ Cardinality(IPortsAt(b)) > 1 => npc = "raised"

\* C15: at a point with exactly one boundary port, one instance port is
\* connected to the net that holds the pin of the boundary port, more than
\* one instance port makes circuit() raise; at a point with several
\* boundary ports any instance port makes circuit() raise
C15_SinglePinSingleInstance ==
    Finished =>
        \A b \in IBuckets :
           BPortsAt(b) # {} =>
              /\ Cardinality(BPortsAt(b)) > 1 => npc = "raised"
              /\ Cardinality(IPortsAt(b)) > 1 => npc = "raised"
              /\ ((Cardinality(BPortsAt(b)) > 1 \/ Cardinality(IPortsAt(b)) > 1)
                  /\ ~NameCollision) => nerr.kind = "AssertionError"
              /\ npc = "done" =>
                    \A i \in IPortsAt(b), k \in BPortsAt(b) :
                       /\ NetsOf(i) = {[kind |-> "cell", b |-> b]}
                       /\ [port |-> k, net |-> [kind |-> "cell", b |-> b]]
                             \in TheCircuit.pins

\* C15 witness: an instance port at a point with two boundary ports that
\* agree with it made the extraction raise
C15_Witness ==
    /\ npc = "raised"
    /\ nerr.what = "directly_connected_cell_ports"
    /\ \E b \in IBuckets :
          /\ Cardinality(BPortsAt(b)) = 2 /\ Cardinality(IPortsAt(b)) = 1
          /\ \A k \in BPortsAt(b), i \in IPortsAt(b) :
                SameKind(cells[1].ports[k], cells[1].insts[i].port)

\* C16: circuit() raises the ValueError of colliding port names iff two
\* extracted boundary ports carry the same name; ports without a name
\* never collide
C16_NameCollisionIsFatal ==
    Finished =>
        /\ NameCollision <=> (npc = "raised" /\ nerr.kind = "ValueError")
        /\ nerr.kind = "ValueError" => Len(netlist) = 1

\* C16 witness: two ports named alike at different points made circuit()
\* raise
C16_Witness ==
    /\ npc = "raised"
    /\ nerr.kind = "ValueError"
    /\ \E i, j \in 1 .. Len(cells[1].ports) :
          /\ cells[1].ports[i].name = cells[1].ports[j].name
          /\ Bucket(cells[1].ports[i]) # Bucket(cells[1].ports[j])

\* ------------------------------------------------------------------------
\* Properties of l2n()
\* ------------------------------------------------------------------------
\* two boundary ports of cell i that are extracted carry the same name
CollidingNames(i) ==
    \E a, b \in 1 .. Len(cells[i].ports) :
        /\ a # b
        /\ cells[i].ports[a].port_type \in port_types
        /\ cells[i].ports[b].port_type \in port_types
        /\ cells[i].ports[a].name # ""
        /\ cells[i].ports[a].name = cells[i].ports[b].name

\* the cells of the run: cell 1 and every cell below it
InRun == {1} \cup called_cells(1)

\* cell i and the cells below it can all be extracted
Healthy(i) == \A j \in {i} \cup called_cells(i) : ~CollidingNames(j)

\* l2n() has returned or raised
L2nOver == npc \in {"done", "raised"}

\* C17 as stated: a cell whose extraction fails does not keep the cells
\* beside it from being extracted in the same run
C17_SiblingsExtracted ==
    L2nOver =>
        \A i \in called_cells(1) : Healthy(i) => i \in Extracted(netlist)

\* C17: an error in the extraction of one cell ends the whole run: l2n()
\* raises iff some cell of the run cannot be extracted, and then the netlist
\* holds the cells visited before the failing one and none of the cells
\* after it, whether they depend on the failing cell or not, nor cell 1
C17_FatalToTheRun ==
    /\ nerr.kind # "none" => npc = "raised"
    /\ L2nOver =>
          /\ npc = "raised" <=> \E i \in InRun : CollidingNames(i)
          /\ npc = "raised" =>
                /\ nerr.kind = "ValueError"
                /\ 1 \notin Extracted(netlist)
                /\ \A i \in InRun :
                      CollidingNames(i) => i \notin Extracted(netlist)
                /\ \A k \in 1 .. Len(todo) : todo[k] \notin Extracted(netlist)
                /\ Extracted(netlist) \cup {todo[k] : k \in 1 .. Len(todo)}
                      = called_cells(1)

\* C17 witness: the run raised and left out a called cell that can be
\* extracted and does not depend on a failing cell
C17_Witness ==
    /\ npc = "raised"
    /\ \E i \in called_cells(1) : Healthy(i) /\ i \notin Extracted(netlist)

\* C18: every circuit is added after the circuits of all cells it
\* instantiates, so each subcircuit refers to a circuit that is already in
\* the netlist; a run that returns has added every cell of the run once,
\* cell 1 last
C18_BottomUp ==
    /\ \A k \in 1 .. Len(netlist) :
          /\ \A j \in Callees(netlist[k].cell) :
                \E m \in 1 .. k - 1 : netlist[m].cell = j
          /\ \A n \in 1 .. Len(netlist[k].subcircuits) :
                netlist[k].subcircuits[n].ref
          /\ \A m \in 1 .. Len(netlist) :
                netlist[m].cell = netlist[k].cell => m = k
    /\ npc = "done" =>
          /\ Extracted(netlist) = InRun
          /\ netlist[Len(netlist)].cell = 1

\* C18 witness: a run returned in which a cell with a lower index sits
\* below a cell with a higher index, and a cell is called from two cells
C18_Witness ==
    /\ npc = "done"
    /\ \E i, j \in called_cells(1) : i > j /\ j \in Callees(i) /\ j \in Callees(1)

\* ------------------------------------------------------------------------
\* Properties of connectivity_check()
\* ------------------------------------------------------------------------
\* the checked boundary ports and instance ports of cells[1] at the point
\* and layer b
ChkB(b) ==
    {i \in 1 .. Len(cells[1].ports) :
        /\ port_types = {} \/ cells[1].ports[i].port_type \in port_types
        /\ Bucket(cells[1].ports[i]) = b}

ChkI(b) ==
    {i \in 1 .. Len(cells[1].insts) :
        /\ port_types = {} \/ cells[1].insts[i].port.port_type \in port_types
        /\ Bucket(cells[1].insts[i].port) = b}

\* the points and layers that hold a checked instance port
ChkIBuckets ==
    {b \in {Bucket(cells[1].insts[i].port) : i \in 1 .. Len(cells[1].insts)} :
        ChkI(b) # {}}

\* the items of cells[1] of category cat at b
ItemsAt(b, cat) ==
    {k \in 1 .. Len(db) :
        /\ db[k].cell = 1 /\ db[k].cat = cat
        /\ db[k].layer = b.layer /\ db[k].x = b.x /\ db[k].y = b.y}

MismatchCats == {"WidthMismatch", "AngleMismatch", "TypeMismatch"}

\* the mismatch categories two ports at one point give rise to; facing tells
\* whether the ports are to face each other or to point the same way
PairCats(p1, p2, facing) ==
    (IF p1.width # p2.width THEN {"WidthMismatch"} ELSE {})
    \cup (IF (facing /\ ~Facing(p1, p2)) \/ (~facing /\ ~SameWay(p1, p2))
          THEN {"AngleMismatch"} ELSE {})
    \cup (IF p1.port_type # p2.port_type THEN {"TypeMismatch"} ELSE {})

\* at b there is one item of each category of cats and none of the other
\* mismatch categories
MismatchItemsAre(b, cats) ==
    \A cat \in MismatchCats :
        Cardinality(ItemsAt(b, cat)) = IF cat \in cats THEN 1 ELSE 0

\* C19: every bucket of instance ports is classified by its size: one port
\* and no boundary port gives one OrphanPort item and nothing else; one port
\* on a boundary port gives the items of its mismatches with that port only;
\* two ports give the items of their mismatches, and one overlap item iff a
\* boundary port is there; three or more ports give one overlap item that
\* lists all of them and no mismatch item
C19_BucketsClassified ==
    npc = "done" =>
        \A b \in ChkIBuckets :
           LET n == Cardinality(ChkI(b))
               lo == CHOOSE i \in ChkI(b) : \A j \in ChkI(b) : i <= j
               hi == CHOOSE i \in ChkI(b) : \A j \in ChkI(b) : j <= i
           IN  /\ (n = 1 /\ ChkB(b) = {}) =>
                     /\ Cardinality(ItemsAt(b, "OrphanPort")) = 1
                     /\ MismatchItemsAre(b, {})
                     /\ ItemsAt(b, "portoverlap") = {}
               /\ (n = 1 /\ ChkB(b) # {}) =>
                     /\ ItemsAt(b, "OrphanPort") = {}
                     /\ ItemsAt(b, "portoverlap") = {}
                     /\ MismatchItemsAre(b,
                            PairCats(cells[1].ports[CHOOSE i \in ChkB(b) :
                                                       \A j \in ChkB(b) : i <= j],
                                     cells[1].insts[lo].port, FALSE))
               /\ n = 2 =>
                     /\ ItemsAt(b, "OrphanPort") = {}
                     /\ MismatchItemsAre(b,
                            PairCats(cells[1].insts[lo].port,
                                     cells[1].insts[hi].port, TRUE))
                     /\ Cardinality(ItemsAt(b, "portoverlap")) =
                           IF ChkB(b) # {} THEN 1 ELSE 0
               /\ n >= 3 =>
                     /\ ItemsAt(b, "OrphanPort") = {}
                     /\ MismatchItemsAre(b, {})
                     /\ Cardinality(ItemsAt(b, "portoverlap")) = 1
                     /\ \A k \in ItemsAt(b, "portoverlap") :
                           {db[k].ports[m] : m \in 1 .. Len(db[k].ports)}
                              = {InstRef(i) : i \in ChkI(b)}

\* C19 witness: the check returned for a cell with three instance ports at
\* one point, two of which differ in width, angle and port type
C19_Witness ==
    /\ npc = "done"
    /\ \E b \in ChkIBuckets :
          /\ Cardinality(ChkI(b)) = 3
          /\ \E i, j \in ChkI(b) :
                PairCats(cells[1].insts[i].port, cells[1].insts[j].port, TRUE)
                   = MismatchCats

PortOf(k, ref) ==
    IF ref.kind = "cell" THEN cells[db[k].cell].ports[ref.i]
    ELSE cells[db[k].cell].insts[ref.i].port

\* the port passes the allow-lists of the call
Allowed(port) ==
    /\ port_types = {} \/ port.port_type \in port_types
    /\ layers = {} \/ port.layer \in layers

\* C21 as stated: every port an item refers to, in the checked cell or in a
\* called cell, passes port_types and layers
C21_AllowLists ==
    npc = "done" =>
        \A k \in 1 .. Len(db) :
            \A m \in 1 .. Len(db[k].ports) : Allowed(PortOf(k, db[k].ports[m]))

\* the physical-shape items of the boundary port i of cells[1]
ShapeItemsOf(i, cat) ==
    {k \in 1 .. Len(db) :
        db[k].cell = 1 /\ db[k].cat = cat /\ db[k].ports = <<CellRef(i)>>}

\* the length of the port edge that lies on shape edges
Covered(i) ==
    LET pe == port_edge(cells[1].ports[i])
    IN  Cardinality({x \in pe.lo .. pe.hi - 1 :
                        \E e \in cells[1].edges[i] : e.lo <= x /\ x + 1 <= e.hi})

\* C22: a boundary port that passes the filters gets one
\* MissingPhysicalShape item if no shape edge overlaps its edge, one
\* PartialPhysicalShape item if a part of its edge is overlapped, and no
\* such item if the whole edge is; a port that does not pass gets none
C22_ShapeOutcome ==
    npc = "done" =>
        \A i \in 1 .. Len(cells[1].ports) :
            LET miss == Cardinality(ShapeItemsOf(i, "MissingPhysicalShape"))
                part == Cardinality(ShapeItemsOf(i, "PartialPhysicalShape"))
                w    == cells[1].ports[i].width
            IN  IF ~Allowed(cells[1].ports[i]) THEN miss = 0 /\ part = 0
                ELSE IF Covered(i) = 0 THEN miss = 1 /\ part = 0
                ELSE IF Covered(i) < w THEN miss = 0 /\ part = 1
                ELSE miss = 0 /\ part = 0

\* C22 witness: the check returned for a port whose edge lies on two
\* separate shape edges that leave a gap
C22_Witness ==
    /\ npc = "done"
    /\ \E i \in 1 .. Len(cells[1].ports) :
          /\ Allowed(cells[1].ports[i])
          /\ Cardinality(cells[1].edges[i]) = 2
          /\ Covered(i) > 0
          /\ ShapeItemsOf(i, "PartialPhysicalShape") # {}

\* ------------------------------------------------------------------------
\* Properties of route_bundle()
\* ------------------------------------------------------------------------
\* the unit vector of a direction of 0, 90, 180 or 270 degrees
UnitX(a) == IF a = 0 THEN 1 ELSE IF a = 180 THEN -1 ELSE 0

UnitY(a) == IF a = 90 THEN 1 ELSE IF a = 270 THEN -1 ELSE 0

\* the distances the model has to look ahead on a ray
RayRange == 1 .. 60

\* the point x lies ahead on the ray from (x0, y0) in the direction a
OnRay(x, x0, y0, a) ==
    \E t \in RayRange : x.x = x0 + t * UnitX(a) /\ x.y = y0 + t * UnitY(a)

\* the direction of the ray that prolongs the lane beyond its first and
\* beyond its last waypoint
LaneDirAtStart(pts) ==
    IF pts[1].y = pts[2].y THEN (IF pts[1].x > pts[2].x THEN 0 ELSE 180)
    ELSE (IF pts[1].y > pts[2].y THEN 90 ELSE 270)

LaneDirAtEnd(pts) ==
    LET n == Len(pts)
    IN  IF pts[n].y = pts[n - 1].y THEN (IF pts[n].x > pts[n - 1].x THEN 0 ELSE 180)
        ELSE (IF pts[n].y > pts[n - 1].y THEN 90 ELSE 270)

\* the points at which the ray of the port pt meets the ray from q in
\* direction a ahead of both
Meet(pt, q, a) ==
    {x \in {Point(pt.x, q.y), Point(q.x, pt.y)} :
        OnRay(x, pt.x, pt.y, pt.a) /\ OnRay(x, q.x, q.y, a)}

\* C23: for each lane, if the ray of the start port and the ray that
\* prolongs the first segment of the lane meet ahead of both, that point is
\* inserted between the port position and the waypoints of the lane;
\* otherwise the first waypoint is replaced by the dog-leg through the
\* points at the reference distance on both rays; the same at the end; the
\* list handed to route() runs from the start port to the end port and has
\* at least 3 points
C23_EndpointReconciliation ==
    bundle.n > 0 =>
        LET ps == bundle.ps pe == bundle.pe pts == bundle.pts out == bundle.out
            n == Len(pts) m == Len(out)
            ds == LaneDirAtStart(pts) de == LaneDirAtEnd(pts)
            ms == Meet(ps, pts[1], ds) me == Meet(pe, pts[n], de)
        IN  /\ out[1] = Point(ps.x, ps.y)
            /\ out[m] = Point(pe.x, pe.y)
            /\ m >= 3
            /\ m = n + 4
            /\ SubSeq(out, 4, m - 3) = SubSeq(pts, 2, n - 1)
            /\ IF ms # {}
               THEN out[2] \in ms /\ out[3] = pts[1]
               ELSE /\ out[2] = Point(ps.x + PRadius * UnitX(ps.a),
                                      ps.y + PRadius * UnitY(ps.a))
                    /\ out[3] = Point(pts[1].x + PRadius * UnitX(ds),
                                      pts[1].y + PRadius * UnitY(ds))
            /\ IF me # {}
               THEN out[m - 1] \in me /\ out[m - 2] = pts[n]
               ELSE /\ out[m - 1] = Point(pe.x + PRadius * UnitX(pe.a),
                                          pe.y + PRadius * UnitY(pe.a))
                    /\ out[m - 2] = Point(pts[n].x + PRadius * UnitX(de),
                                          pts[n].y + PRadius * UnitY(de))

\* C23 witness: a second lane of a bundle got a dog-leg at its start, where
\* the rays do not meet ahead of both, and the cut point at its end
C23_Witness ==
    /\ bundle.n = 2
    /\ Meet(bundle.ps, bundle.pts[1], LaneDirAtStart(bundle.pts)) = {}
    /\ CutPoint(bundle.ps, trans_bundle_start(bundle.pts)).ok
    /\ Meet(bundle.pe, bundle.pts[Len(bundle.pts)], LaneDirAtEnd(bundle.pts)) # {}

\* ------------------------------------------------------------------------
\* Properties of lock()
\* ------------------------------------------------------------------------
MutatingOps ==
    {"create_port", "add_port", "add_ports", "ports", "name",
     "auto_rename_ports", "flatten", "insert", "transform", "create_inst",
     "create_vinst"}

\* the last operation was one of ops on a locked cell
OnLocked(ops) == kc.wasLocked /\ kc.op \in ops

\* C24: every operation that changes a locked cell raises LockedError and
\* leaves the ports, the name, the instances and the virtual instances as
\* they were, for KCell, DKCell and VKCell
C24_LockedCellUnchanged ==
    OnLocked(MutatingOps) => kc.err = "LockedError" /\ Snap(kc) = kc.was

\* ------------------------------------------------------------------------
\* Properties of rename_clockwise()
\* ------------------------------------------------------------------------
\* the ports that pass the three filters of the call
RenSelected ==
    {i \in 1 .. Len(ren.ports) :
        /\ ren.filter.layer # 0 => ren.ports[i].layer = ren.filter.layer
        /\ ren.filter.port_type # "None"
              => ren.ports[i].ptype = ren.filter.port_type
        /\ ren.filter.regex # "None"
              => ren.ports[i].name.prefix = ren.filter.regex}

\* the side a port faces, counted clockwise from the west side
Side(port) ==
    CASE port.angle = 2 -> 0
      [] port.angle = 1 -> 1
      [] port.angle = 0 -> 2
      [] OTHER -> 3

\* the coordinate that grows clockwise along the side a port faces
Along(port) ==
    CASE port.angle = 2 -> port.y
      [] port.angle = 1 -> port.x
      [] port.angle = 0 -> 0 - port.y
      [] OTHER -> 0 - port.x

\* C25: rename_clockwise renames exactly the ports that pass the filters,
\* to the distinct names prefix+start, prefix+start+1, ... in clockwise
\* order: west by increasing y, north by increasing x, east by decreasing
\* y, south by decreasing x; every other port keeps its name, and nothing
\* but names changes
C25_ClockwiseNames ==
    ren.done =>
        LET ps == ren.ports out == ren.out sel == RenSelected
        IN  /\ Len(out) = Len(ps)
            /\ \A i \in 1 .. Len(ps) :
                  /\ [out[i] EXCEPT !.name = ps[i].name] = ps[i]
                  /\ i \notin sel => out[i].name = ps[i].name
                  /\ i \in sel => out[i].name.prefix = ren.prefix
            /\ {out[i].name.n : i \in sel}
                  = ren.start .. (ren.start + Cardinality(sel) - 1)
            /\ \A i, j \in sel :
                  out[i].name.n < out[j].name.n =>
                      \/ Side(ps[i]) < Side(ps[j])
                      \/ /\ Side(ps[i]) = Side(ps[j])
                         /\ Along(ps[i]) <= Along(ps[j])

\* C25 witness: of two ports on the east side that pass the filters the
\* higher one was handed over last and got the first name, while a port
\* that does not pass kept its name
C25_Witness ==
    /\ ren.done
    /\ \E i, j \in RenSelected :
          /\ i < j
          /\ ren.ports[i].angle = 0
          /\ ren.ports[j].angle = 0
          /\ ren.ports[i].y < ren.ports[j].y
          /\ ren.out[j].name = PName(ren.prefix, ren.start)
    /\ ren.filter.layer = 1

\* ------------------------------------------------------------------------
\* Properties of route(): the cursor and failed routes
\* ------------------------------------------------------------------------
\* the turn angles that are not 0 at the interior waypoints 2 .. n of b
RECURSIVE Turns(_, _)
Turns(b, n) ==
    IF n < 2 THEN <<>>
    ELSE Turns(b, n - 1)
         \o (IF TurnAt(b, n) # 0 THEN <<TurnAt(b, n)>> ELSE <<>>)

\* the number of bends among the first i elements of the route
BendsUpTo(i) == Cardinality({k \in 1 .. i : insts[k].kind = "bend"})

\* the port by which the cursor leaves the element e of the route
LeavesBy(e) ==
    IF e.kind = "straight" THEN "o2"
    ELSE IF e.port = "o1" THEN "o2" ELSE "o1"

\* C26: a bend is connected by its first port when the turn is positive and
\* by its second when it is negative; every element is connected to the
\* port by which the cursor left its predecessor, the first one to the
\* start port, and the cursor is the exit port of the last element
C26_CursorChain ==
    /\ \A i \in 1 .. Len(insts) :
          /\ insts[i].to = IF i = 1 THEN StartPort
                           ELSE [inst |-> insts[i - 1].id,
                                 port |-> LeavesBy(insts[i - 1])]
          /\ insts[i].kind = "straight" => insts[i].port = "o1"
          /\ insts[i].kind = "bend" =>
                LET turn == Turns(backbone, Len(backbone) - 1)[BendsUpTo(i)]
                IN  insts[i].port = IF turn > 0 THEN "o1" ELSE "o2"
    /\ pc \in {"loop", "close", "done"} =>
          cursor = IF insts = <<>> THEN StartPort
                   ELSE [inst |-> insts[Len(insts)].id,
                         port |-> LeavesBy(insts[Len(insts)])]

\* C26 witness: a finished route with a left and a right turn, the second
\* bend connected by its second port to the straight before it
C26_Witness ==
    /\ pc = "done"
    /\ \E i, j \in 1 .. Len(insts) :
          /\ i < j
          /\ insts[i].kind = "bend" /\ insts[i].port = "o1"
          /\ insts[j].kind = "bend" /\ insts[j].port = "o2"
          /\ insts[j].to.port = "o2"

\* the route failed for lack of space at interior waypoint k, or at the
\* closing segment when k is the last waypoint
NoSpaceAt(k) ==
    pc = "failed" /\ err.what = "not_enough_space" /\ idx = k

\* C27 as stated: a failure for lack of space after the first interior
\* waypoint leaves the elements placed before it in the cell, and only a
\* failure at the first interior waypoint or the rejection of a backbone of
\* fewer than 3 points leaves the cell without any element of the route
C27_NoRollback ==
    /\ pc = "failed" => c_insts = c_before \o insts
    /\ \A k \in 3 .. Len(backbone) : NoSpaceAt(k) => insts # <<>>
    /\ NoSpaceAt(2) => insts = <<>>
    /\ err.what = "less_than_3_points" => insts = <<>>

\* every segment before waypoint k has length 0 and ends without a turn
NothingBefore(k) ==
    \A j \in 1 .. k - 2 :
        backbone[j] = backbone[j + 1] /\ TurnAt(backbone, j + 1) = 0

\* C27 amended: a failed route keeps every element placed before the
\* failure; after a failure for lack of space at waypoint k the cell holds
\* no element of the route exactly if k is the first interior waypoint or
\* every earlier segment has length 0 and no turn
C27_NoRollbackAfterFirstElement ==
    /\ pc = "failed" => c_insts = c_before \o insts
    /\ \A k \in 2 .. Len(backbone) :
          NoSpaceAt(k) => (insts = <<>> <=> NothingBefore(k))
    /\ err.what = "less_than_3_points" => insts = <<>>

\* C27 witness: the route failed for lack of space at its closing segment
\* and the straight and the bend placed before are in the cell
C27_Witness ==
    /\ NoSpaceAt(Len(backbone))
    /\ Len(insts) >= 2
    /\ c_insts = c_before \o insts
    /\ c_before # <<>>

\* ------------------------------------------------------------------------
\* Properties of circuit(): the netlist after a failure
\* ------------------------------------------------------------------------
\* the netlist circuit() was called on: the circuit of the leaf cell
NetlistAtCall == <<Circuit(2, Leaf, port_types, <<>>).circ>>

\* C28: the circuit of a cell is added to the netlist as the last step:
\* after a failed extraction the netlist holds no circuit of the cell and
\* is the netlist of before the call; after a successful one it is that
\* netlist followed by the whole circuit of the cell
C28_AtomicCommit ==
    /\ npc = "raised" =>
          /\ nerr.kind # "none"
          /\ netlist = NetlistAtCall
          /\ 1 \notin Extracted(netlist)
    /\ npc = "done" =>
          /\ nerr.kind = "none"
          /\ netlist = Append(NetlistAtCall,
                              Circuit(1, cells[1], port_types, NetlistAtCall).circ)
          /\ netlist[2].cell = 1
    /\ npc = "circuit" => netlist = NetlistAtCall

\* C28 witness: the extraction failed on the ports of an instance, after
\* the nets and pins of the boundary ports had been created in the circuit
C28_Witness ==
    /\ npc = "raised"
    /\ nerr.kind = "AssertionError"
    /\ Pins(cells[1], port_types) # {}
    /\ netlist = NetlistAtCall

\* ------------------------------------------------------------------------
\* Properties of the ports: mirror flag and position
\* ------------------------------------------------------------------------
\* C29: a read of port.mirror returns the mirror flag of the transformation
\* of the port and an assignment stores the given flag in it, for Port and
\* DPort; neither ends in an exception
C29_MirrorReturns ==
    /\ last.op = "get_mirror" =>
          last.res = Ok(<<GetTrans(ports[last.k]).mirror>>)
    /\ last.op = "set_mirror" =>
          /\ last.res = Ok(<<>>)
          /\ GetTrans(ports[last.k]).mirror = last.arg

\* what the getters x, y, angle and mirror of a port return: in database
\* units and quadrants for a Port, in um and degrees for a DPort
ReadX(b) == IF b.flavour = "Port" THEN GetTrans(b).x ELSE GetDcplx(b).x

ReadY(b) == IF b.flavour = "Port" THEN GetTrans(b).y ELSE GetDcplx(b).y

ReadAngle(b) == IF b.flavour = "Port" THEN GetTrans(b).rot ELSE GetDcplx(b).angle

\* the operation op was just made on a port
JustDid(op) == last'.op = op /\ nops' # nops

\* C30: after p.x = v the getter p.x returns v and p.y, the angle and the
\* mirror flag are as before; the same for p.y; after an assignment to
\* center or dcenter both coordinates are read back
C30_PositionReadBack ==
    [][LET b == ports[last'.k] c == ports'[last'.k]
       IN  /\ JustDid("set_x") =>
                 /\ ReadX(c) = last'.arg
                 /\ ReadY(c) = ReadY(b)
                 /\ ReadAngle(c) = ReadAngle(b)
                 /\ GetTrans(c).mirror = GetTrans(b).mirror
           /\ JustDid("set_y") =>
                 /\ ReadY(c) = last'.arg
                 /\ ReadX(c) = ReadX(b)
                 /\ ReadAngle(c) = ReadAngle(b)
                 /\ GetTrans(c).mirror = GetTrans(b).mirror
           /\ JustDid("set_center") =>
                 ReadX(c) = last'.arg /\ ReadY(c) = last'.arg
           /\ JustDid("set_dcenter") =>
                 GetDcplx(c).x = last'.arg /\ GetDcplx(c).y = 0]_vars

====
